---- MODULE Spec2Model ----
(***************************************************************************)
(* Transport and coordination layer of the nnounce scripting SDK:          *)
(*   - WebSocketCommunication (connection lifecycle, reconnect timers,     *)
(*     subscription registry, disconnect buffer, request correlation),     *)
(*   - DesignUtil (single-flight design load coordinator).                 *)
(* Every turn of the event loop (a public call, a socket listener, a timer *)
(* callback together with the promise continuations it releases) is one    *)
(* action.                                                                 *)
(***************************************************************************)
EXTENDS Integers, Sequences, FiniteSets, TLC

(* ------------------------------ bounds -------------------------------- *)
MaxSockets  == 3    \* WebSocket objects created under SpecConn
SendSockets == 2    \* WebSocket objects created under SpecSend
CorrSockets == 2    \* WebSocket objects created under SpecCorr
MaxMsgs     == 2    \* plain and subscription sendEvent calls under SpecSend
SendCalls   == 1    \* sendEventWithResponse calls under SpecSend
MaxCalls    == 2    \* sendEventWithResponse calls under SpecCorr
NumRids     == 2    \* distinct requestId values callers draw from
MaxThrows   == 1    \* times the WebSocket constructor throws
MaxErrors   == 2    \* "error" signals under SpecConn
SendErrors  == 1    \* "error" signals under SpecSend
MaxTicks    == 2    \* heartbeat interval ticks
LiveSockets == 2    \* WebSocket objects created under SpecLive
LiveThrows  == 1    \* times the WebSocket constructor throws under SpecLive
LiveErrors  == 1    \* "error" signals under SpecLive
LiveTicks   == 2    \* heartbeat interval ticks under SpecLive
RecvCalls   == 1    \* sendEventWithResponse calls under SpecRecv
RecvSubs    == 1    \* subscribeToLiveEvent calls under SpecRecv
RecvTicks   == 1    \* heartbeat interval ticks under SpecRecv
MaxLoads    == 2    \* loadDesign calls of design accessors
MaxNotices  == 2    \* designChangeNotify frames
MaxRequests == 3    \* design load requests under SpecDesign
CmdSockets  == 2    \* WebSocket objects created under SpecCmd
CmdCommands == 2    \* commands a script invokes under SpecCmd
CmdRequests == 1    \* design load requests under SpecCmd
MaxStateEvents == 4 \* pin state events under SpecIO
MaxActions == 2     \* playLocalFile / playRemoteFile calls under SpecPaging
MaxPagingFrames == 3 \* paging result frames under SpecPaging
MaxRuns == 2        \* RetryUtil.runAsync calls under SpecRetry
MaxRetryCount == 3  \* largest retryCount passed to runAsync under SpecRetry
MaxInvocations == 4 \* process() calls of one runAsync call with the default retryCount

SocketIds == 1..(MaxSockets + 1)
CallIds   == 1..(MaxCalls + MaxRequests + 1)
Rids      == 1..NumRids                  \* the requestIds callers pass in
AllRids   == 1..(NumRids + MaxCalls + MaxRequests + 1)
LoadIds   == 1..(MaxLoads + MaxNotices)
RunIds    == 1..MaxRuns
ActionIds == 0..(IF MaxActions > CmdCommands THEN MaxActions ELSE CmdCommands)
                                         \* 0: an actionId no call was given

(* Heartbeat interval ticks without an inbound heartbeat after which       *)
(* isHeartbeatTimeout() answers true (the threshold is longer than the     *)
(* send interval).                                                         *)
HeartbeatTimeoutTicks == 1

VARIABLES
    socket,                 \* this.socket: 0 = null, else a socket id
    readyState,             \* readyState of every WebSocket object created
    signalled,              \* per socket: the signals it has delivered, and
                            \* "Missing heartbeat" once the client closed it for that
    reconnectTimeout,       \* this.reconnectTimeout: id of the last timer armed
    timers,                 \* armed reconnect timers, in arming (= firing) order
    timerSeq,               \* number of reconnect timers armed so far
    subscriptionEvents,     \* this.subscriptionEvents
    disconnectEventBuffer,  \* this.disconnectEventBuffer
    eventHandlers,          \* this.eventHandlers: the message kinds with a handler
    eventResultHandlers,    \* this.eventResultHandlers: requestId -> owning call
    calls,                  \* one record per sendEventWithResponse call
    requestTimers,          \* armed 60 s timers, in arming (= firing) order
    heartbeatSendingInterval, \* number of live heartbeat interval timers
    lastIncomeHeartbeat,    \* -1 = null, else ticks since the last stamp
    wire,                   \* every frame written to a socket, in order
    msgSeq,                 \* sendEvent calls made so far
    reconnectsFor,          \* per socket: sockets created by timers it armed
    lastIn,                 \* the last inbound frame (kind: its type field), the
                            \* route it took (type) and the listener it found
    budget,                 \* what the environment and the callers may still do
    designMetadata,         \* DesignHelper: state, partialDesign, loaderIdentifier,
                            \* loadFinishConsumers (timestamp is written, never read)
    loads,                  \* one record per loadDesign call
    retryTimers,            \* loads waiting out RetryUtil's delay, in arming order
    device,                 \* the design the device runs (0 = none)
    notices,                \* designChangeNotify frames handled so far
    noticeLoad,             \* the load the latest designChangeNotify started
    lastCommand,            \* the last command a script invoked, and how it ended
    inputStates,            \* IOControlStates.inputStates, as seen from one input pin
    inputChangeListeners,   \* onChange callbacks registered for that pin
    reported,               \* the pin's value in the last state event (-1: not listed)
    onChange,               \* calls of the digital onChange callback, and the last value
    runs,                   \* one record per RetryUtil.runAsync call with a retryCount
    callPrepareWaitingMap,  \* NnPagingRouter: actionIds with an entry (= an armed 30 s timer)
    callTimeoutMap,         \* NnPagingRouter: actionIds with an entry
    callTimers,             \* actionIds whose 10 min timer is armed
    busyTimers,             \* armed 1 s retry timers, by actionId, in arming order
    actionSeq,              \* actionIds created so far
    callStarts,             \* per actionId: callStartEvents sent
    finished,               \* actionIds whose tracked call got a final result
    lastPaging              \* the last paging frame or timer handled

sockVars == <<socket, readyState, signalled>>
timerVars == <<reconnectTimeout, timers, timerSeq, reconnectsFor>>
hbVars == <<heartbeatSendingInterval, lastIncomeHeartbeat>>
connVars == <<sockVars, timerVars, hbVars, eventHandlers>>
sendVars == <<subscriptionEvents, disconnectEventBuffer, wire, msgSeq>>
corrVars == <<eventResultHandlers, calls, requestTimers, lastIn>>
designVars == <<designMetadata, loads, retryTimers, device, notices, noticeLoad>>

ioVars == <<inputStates, inputChangeListeners, reported, onChange>>
retryVars == <<runs>>
pagingVars == <<callPrepareWaitingMap, callTimeoutMap, callTimers, busyTimers, actionSeq,
                callStarts, finished, lastPaging>>
appVars == <<lastCommand, ioVars, retryVars, pagingVars>>

vars == <<connVars, sendVars, corrVars, designVars, budget, appVars>>

(* ------------------------- WebSocketCommunication ---------------------- *)

NoCall == [rid |-> 0, status |-> "unused", handlerCalls |-> 0, settleCalls |-> 0,
           byRid |-> 0, state |-> "none", owner |-> 0, attempt |-> 0]

\* connected(): the socket exists and is OPEN
connected(sock, rs) == sock # 0 /\ rs[sock] = "OPEN"

\* sendMessageToSocket that buffers every frame it cannot send
sendMessageToSocketBufferAll(st, conn, sock, json, isSubscriptionEvent) ==
    IF conn
    THEN [st EXCEPT !.wire = Append(@, [sock |-> sock, msg |-> json])]
    ELSE [st EXCEPT !.buf = Append(@, json)]

\* sendMessageToSocket on the pair (wire, buffer)
sendMessageToSocket(st, conn, sock, json, isSubscriptionEvent) ==
    IF conn
    THEN [st EXCEPT !.wire = Append(@, [sock |-> sock, msg |-> json])]
    ELSE IF isSubscriptionEvent
         THEN st
         ELSE [st EXCEPT !.buf = Append(@, json)]

\* Array.forEach(json => sendMessageToSocket(json, isSubscriptionEvent))
RECURSIVE sendAll(_, _, _, _, _)
sendAll(st, conn, sock, msgs, isSubscriptionEvent) ==
    IF msgs = <<>>
    THEN st
    ELSE sendAll(sendMessageToSocket(st, conn, sock, Head(msgs), isSubscriptionEvent),
                 conn, sock, Tail(msgs), isSubscriptionEvent)

\* sendEvent that does not record a subscription payload in the registry
sendEventNoRecord(st, conn, sock, json, isSubscriptionEvent) ==
    sendMessageToSocket(st, conn, sock, json, isSubscriptionEvent)

\* sendEvent: record a subscription payload, then hand the frame to the socket
sendEvent(st, conn, sock, json, isSubscriptionEvent) ==
    LET st1 == IF isSubscriptionEvent
               THEN [st EXCEPT !.subs = Append(@, json)]
               ELSE st
    IN sendMessageToSocket(st1, conn, sock, json, isSubscriptionEvent)

\* the three sequences sendEvent works on
sendState == [wire |-> wire, buf |-> disconnectEventBuffer, subs |-> subscriptionEvents]

\* clearTimeout(id) on the queue of armed reconnect timers
clearTimeout(q, id) == SelectSeq(q, LAMBDA t : t.id # id)

NewSocketId == Cardinality({s \in SocketIds : readyState[s] # "NONE"}) + 1

\* no command invoked yet
NoCommand == [name |-> "none", connected |-> FALSE, outcome |-> "none"]

NoBudget == [sockets |-> 0, throws |-> 0, errors |-> 0, ticks |-> 0, msgs |-> 0,
             calls |-> 0, loads |-> 0, notices |-> 0, cmds |-> 0,
             states |-> 0, pages |-> 0]

NoPaging == [kind |-> "none", actionId |-> 0, state |-> "none", failReason |-> FALSE,
             tracked |-> FALSE]

NoRun == [status |-> "unused", retryCount |-> 0, left |-> 0, invocations |-> 0]

NoLoad == [status |-> "unused", joined |-> FALSE, behind |-> 0, requests |-> 0,
           sawState |-> "NONE", sawDesign |-> 0]

\* The state the constructors leave: connect() has created the first socket; the
\* DesignHelper is fresh.
InitWith(b) ==
    /\ socket = 1
    /\ readyState = [s \in SocketIds |-> IF s = 1 THEN "CONNECTING" ELSE "NONE"]
    /\ signalled = [s \in SocketIds |-> {}]
    /\ reconnectTimeout = 0
    /\ timers = <<>>
    /\ timerSeq = 0
    /\ subscriptionEvents = <<>>
    /\ disconnectEventBuffer = <<>>
    /\ eventHandlers = {}
    /\ eventResultHandlers = [r \in AllRids |-> 0]
    /\ calls = [c \in CallIds |-> NoCall]
    /\ requestTimers = <<>>
    /\ heartbeatSendingInterval = 0
    /\ lastIncomeHeartbeat = -1
    /\ wire = <<>>
    /\ msgSeq = 0
    /\ reconnectsFor = [s \in 0..(MaxSockets + 1) |-> 0]
    /\ lastIn = [type |-> "none", kind |-> "none", rid |-> 0, state |-> "none",
                 listener |-> 0]
    /\ budget = b
    /\ designMetadata = [state |-> "NONE", partialDesign |-> 0,
                         loaderIdentifier |-> 0, loadFinishConsumers |-> <<>>]
    /\ loads = [l \in LoadIds |-> NoLoad]
    /\ retryTimers = <<>>
    /\ device = 1
    /\ notices = 0
    /\ noticeLoad = 0
    /\ lastCommand = NoCommand
    /\ inputStates = [empty |-> TRUE, value |-> -1]
    /\ inputChangeListeners = 0
    /\ reported = -1
    /\ onChange = [calls |-> 0, last |-> "none"]
    /\ runs = [r \in RunIds |-> NoRun]
    /\ callPrepareWaitingMap = {}
    /\ callTimeoutMap = {}
    /\ callTimers = {}
    /\ busyTimers = <<>>
    /\ actionSeq = 0
    /\ callStarts = [a \in ActionIds |-> 0]
    /\ finished = {}
    /\ lastPaging = NoPaging

(* ----- public calls ----- *)

NextCall == Cardinality({c \in CallIds : calls[c].status # "unused"}) + 1

\* sendEvent(message) of a plain (non-subscription, no requestId) frame
SendPlainEvent ==
    /\ budget.msgs > 0
    /\ budget' = [budget EXCEPT !.msgs = @ - 1]
    /\ LET json == [id |-> msgSeq + 1, type |-> "event", rid |-> 0, sub |-> FALSE]
           st == sendEvent(sendState, connected(socket, readyState), socket, json, FALSE)
       IN /\ wire' = st.wire
          /\ disconnectEventBuffer' = st.buf
          /\ subscriptionEvents' = st.subs
    /\ msgSeq' = msgSeq + 1
    /\ UNCHANGED <<appVars, connVars, corrVars, designVars>>

\* subscribeToLiveEvent / subscribeToEvent: register the handler, send the
\* subscription frame flagged as subscription
subscribeToLiveEvent(notifyType) ==
    /\ budget.msgs > 0
    /\ budget' = [budget EXCEPT !.msgs = @ - 1]
    /\ eventHandlers' = eventHandlers \cup {notifyType}
    /\ LET json == [id |-> msgSeq + 1, type |-> "subscribe", rid |-> 0, sub |-> TRUE]
           st == sendEvent(sendState, connected(socket, readyState), socket, json, TRUE)
       IN /\ wire' = st.wire
          /\ disconnectEventBuffer' = st.buf
          /\ subscriptionEvents' = st.subs
    /\ msgSeq' = msgSeq + 1
    /\ UNCHANGED <<appVars, sockVars, timerVars, hbVars, corrVars, designVars>>

\* an application's subscription to a live event
SubscribeToLiveEvent == subscribeToLiveEvent("notify")

\* the fields sendEventWithResponse works on
sender == [handlers |-> eventResultHandlers, calls |-> calls, timers |-> requestTimers,
           wire |-> wire, buf |-> disconnectEventBuffer, subs |-> subscriptionEvents,
           msgSeq |-> msgSeq]

\* sendEventWithResponse up to its await: register the result handler under the
\* requestId, arm the 60 s timer, send the request frame. owner names the load
\* that awaits the call (0: an application caller).
sendEventWithResponse(w, rid, isSubscriptionEvent, owner) ==
    LET c == Cardinality({x \in CallIds : w.calls[x].status # "unused"}) + 1
        json == [id |-> w.msgSeq + 1, type |-> "request", rid |-> rid,
                 sub |-> isSubscriptionEvent]
        st == sendEvent([wire |-> w.wire, buf |-> w.buf, subs |-> w.subs],
                        connected(socket, readyState), socket, json, isSubscriptionEvent)
    IN [handlers |-> [w.handlers EXCEPT ![rid] = c],
        calls |-> [w.calls EXCEPT ![c] = [NoCall EXCEPT !.rid = rid, !.status = "pending",
                                                         !.owner = owner]],
        timers |-> Append(w.timers, c),
        wire |-> st.wire, buf |-> st.buf, subs |-> st.subs,
        msgSeq |-> w.msgSeq + 1]

\* an application caller's sendEventWithResponse
SendEventWithResponse(rid, isSubscriptionEvent) ==
    /\ budget.calls > 0
    /\ budget' = [budget EXCEPT !.calls = @ - 1]
    /\ eventResultHandlers[rid] = 0     \* ids are unique among the pending requests
    /\ LET w == sendEventWithResponse(sender, rid, isSubscriptionEvent, 0)
       IN /\ eventResultHandlers' = w.handlers
          /\ calls' = w.calls
          /\ requestTimers' = w.timers
          /\ wire' = w.wire
          /\ disconnectEventBuffer' = w.buf
          /\ subscriptionEvents' = w.subs
          /\ msgSeq' = w.msgSeq
    /\ UNCHANGED <<appVars, lastIn, connVars, designVars>>

(* ------------------------------ DesignUtil ----------------------------- *)

\* createRequestId(): a fresh identifier for every request (timestamp plus random
\* suffix), outside the ids application callers pass in
createRequestId(w) == NumRids + Cardinality({c \in CallIds : w.calls[c].status # "unused"}) + 1

\* getIdentifier(): a fresh identifier for every loadDesign call
getIdentifier(ls) == Cardinality({l \in LoadIds : ls[l].status # "unused"}) + 1

\* the loads completed (returned or threw)
Completed == {"returned", "threw"}

\* a design load request is awaiting its response
fetchInFlight(cs) == \E c \in CallIds : cs[c].status = "pending" /\ cs[c].owner # 0

\* D = [dm, loads, retry]
designState == [dm |-> designMetadata, loads |-> loads, retry |-> retryTimers]

RECURSIVE resolveAll(_, _, _)
resolveAll(ls, consumers, dm) ==
    IF consumers = <<>>
    THEN ls
    ELSE resolveAll([ls EXCEPT ![Head(consumers)] =
                        [@ EXCEPT !.status = "returned", !.sawState = dm.state,
                                  !.sawDesign = dm.partialDesign]],
                    Tail(consumers), dm)

\* notifyAllDesignConsumers that leaves the callbacks it ran in the queue
notifyAllDesignConsumersKeep(D) ==
    [D EXCEPT !.loads = resolveAll(@, D.dm.loadFinishConsumers, D.dm)]

\* notifyAllDesignConsumers: run every queued callback (each resolves the promise
\* a queued loadDesign awaits), then empty the queue
notifyAllDesignConsumers(D) ==
    [D EXCEPT !.loads = resolveAll(@, D.dm.loadFinishConsumers, D.dm),
              !.dm.loadFinishConsumers = <<>>]

\* loadDesignInternal after its await, then the rest of loadDesign. data is the
\* response's design: 0 when the device runs none, -1 when it lacks the parts the
\* loader reads (the loader throws; loadDesign's catch notifies and rethrows).
loadDesignFinish(D, l, data) ==
    IF data = 0
    THEN LET D1 == notifyAllDesignConsumers([D EXCEPT !.dm.state = "ERROR"])
         IN [D1 EXCEPT !.loads[l] = [@ EXCEPT !.status = "returned", !.sawState = "ERROR",
                                              !.sawDesign = D1.dm.partialDesign]]
    ELSE IF data = -1
    THEN LET D1 == notifyAllDesignConsumers(D)
         IN [D1 EXCEPT !.loads[l] = [@ EXCEPT !.status = "threw", !.sawState = D1.dm.state,
                                              !.sawDesign = D1.dm.partialDesign]]
    ELSE LET D1 == notifyAllDesignConsumers([D EXCEPT !.dm.partialDesign = data,
                                                      !.dm.state = "DONE"])
         IN [D1 EXCEPT !.loads[l] = [@ EXCEPT !.status = "returned", !.sawState = "DONE",
                                              !.sawDesign = data]]

\* RetryUtil.runAsync with the default retryCount after process() settled: return
\* the result, or wait retryDelayMs and run process() again
runAsyncSettled(D, l, outcome, data) ==
    IF outcome = "resolved"
    THEN loadDesignFinish(D, l, data)
    ELSE [D EXCEPT !.retry = Append(@, l), !.loads[l].status = "retryWait"]

\* the continuation a settled call releases: none for an application caller, the
\* loader's for a design load request
continuation(D, cs, c, wasPending, data) ==
    IF c # 0 /\ wasPending /\ cs[c].owner # 0 /\ cs[c].status # "pending"
    THEN runAsyncSettled(D, cs[c].owner, cs[c].status, data)
    ELSE D

\* process() of the loader: sendEventWithResponse(createDesignLoadEvent())
designLoadRequest(X, l) ==
    [X EXCEPT !.w = sendEventWithResponse(X.w, createRequestId(X.w), FALSE, l),
              !.D.loads[l] = [@ EXCEPT !.status = "fetching", !.requests = @ + 1]]

\* loadDesignInternal(identifier) up to its await, on X = [D, w]: queue behind the
\* main loader, or become the main loader and send the load request
loadDesignInternal(X, l) ==
    IF X.D.dm.state = "LOADING" /\ X.D.dm.loaderIdentifier # l
    THEN [X EXCEPT !.D.dm.loadFinishConsumers = Append(@, l),
                   !.D.loads[l] = [@ EXCEPT !.status = "queued",
                                            !.behind = X.D.dm.loaderIdentifier]]
    ELSE designLoadRequest([X EXCEPT !.D.dm.state = "LOADING",
                                     !.D.dm.loaderIdentifier = l], l)

\* loadDesign() up to its await
loadDesign(X) ==
    LET l == getIdentifier(X.D.loads)
    IN loadDesignInternal([X EXCEPT !.D.loads[l].joined = fetchInFlight(X.w.calls)], l)

\* getComponentId with a state check that passes unless the state is ERROR
getComponentIdUnlessError(dm) ==
    IF dm.state = "ERROR"
    THEN "Design is not available."
    ELSE IF dm.partialDesign = 0 THEN "null" ELSE "id"

\* getComponentId(id): throws unless the state is DONE; null without a snapshot
getComponentId(dm) ==
    IF dm.state # "DONE"
    THEN "Design is not available."
    ELSE IF dm.partialDesign = 0 THEN "null" ELSE "id"

\* getComponentMetadata(id, type): throws unless the state is DONE, then looks
\* the component up (typeMatches: the snapshot holds it under the type asked for)
getComponentMetadata(dm, typeMatches) ==
    IF dm.state # "DONE"
    THEN "Design is not available."
    ELSE IF getComponentId(dm) = "null"
    THEN "Cannot find component"
    ELSE IF dm.partialDesign # 0 /\ typeMatches
    THEN "metadata"
    ELSE "Cannot find component of type"

(* ----- components and commands ----- *)

\* CHECK_DESIGN_UPDATE_ATTEMPT of ANnDspComponent
CHECK_DESIGN_UPDATE_ATTEMPT == 5

\* getGain() / isMute(): the connection check, then the component's metadata
getGain(conn, dm, typeMatches) ==
    IF ~conn
    THEN "WebSocket is not connected"
    ELSE IF getComponentMetadata(dm, typeMatches) = "metadata"
    THEN "value"
    ELSE getComponentMetadata(dm, typeMatches)

\* sendRuntimeUpdate up to its await: sendEventWithResponse(createRuntimeUpdateEvent)
\* on behalf of setGainInternal(value, setAndCheckAttempt)
sendRuntimeUpdate(w, setAndCheckAttempt) ==
    LET c == Cardinality({x \in CallIds : w.calls[x].status # "unused"}) + 1
        w1 == sendEventWithResponse(w, createRequestId(w), FALSE, 0)
    IN [w1 EXCEPT !.calls[c].attempt = setAndCheckAttempt]

\* setGainInternal / setMuteInternal up to the await, on the sender's fields w:
\* nothing at attempt 0, else look the component up and send the update
setGainInternal(w, dm, typeMatches, setAndCheckAttempt) ==
    IF setAndCheckAttempt = 0
    THEN [w |-> w, outcome |-> "no attempt left"]
    ELSE IF getComponentMetadata(dm, typeMatches) # "metadata"
    THEN [w |-> w, outcome |-> getComponentMetadata(dm, typeMatches)]
    ELSE [w |-> sendRuntimeUpdate(w, setAndCheckAttempt), outcome |-> "awaiting"]

\* setGain(value) / setMute(mute) with an argument of the right type
setGain(w, conn, dm, typeMatches) ==
    IF ~conn
    THEN [w |-> w, outcome |-> "WebSocket is not connected"]
    ELSE setGainInternal(w, dm, typeMatches, CHECK_DESIGN_UPDATE_ATTEMPT)

\* how the promise of setGainInternal(value, k) stands, read off the call records
\* cs of one setGain call: "returned" at attempt 0 or when its request was
\* answered OK; "threw" when the lookup threw (no request was sent), when the
\* request failed without a string reason, and, after notChangedCallback has
\* finished either way, by the `throw e` that ends sendRuntimeUpdate's catch
RECURSIVE setGainInternalResult(_, _)
setGainInternalResult(cs, k) ==
    LET sent == {c \in CallIds : cs[c].attempt = k}
        c == CHOOSE x \in sent : TRUE
    IN IF k = 0 THEN "returned"
       ELSE IF sent = {} THEN "threw"
       ELSE IF cs[c].status = "pending" THEN "awaiting"
       ELSE IF cs[c].status = "resolved" THEN "returned"
       ELSE IF cs[c].status = "rejected" /\ cs[c].state # "FAIL" THEN "threw"
       ELSE IF setGainInternalResult(cs, k - 1) = "awaiting" THEN "awaiting"
       ELSE "threw"

\* how the promise of the setGain call that sent the requests in cs stands
setGainResult(cs) == setGainInternalResult(cs, CHECK_DESIGN_UPDATE_ATTEMPT)

\* playLocalFile / playRemoteFile / cancelCall on st = [wire, buf, subs]: the
\* connection check, then sendEvent of the command's frame
pagingCommand(st, conn, sock, json) ==
    IF ~conn
    THEN [st |-> st, outcome |-> "WebSocket is not connected"]
    ELSE [st |-> sendEvent(st, conn, sock, json, FALSE), outcome |-> "sent"]

\* setOutputValue(pin, value) behind digital(pin).setValue and relay(pin).open /
\* close: sendEvent of the pin frame
setOutputValue(st, conn, sock, json) ==
    [st |-> sendEvent(st, conn, sock, json, FALSE), outcome |-> "sent"]

(* ----- request correlation ----- *)

\* resolve(...) / reject(...) of a call's promise: only the first one settles it
settle(cs, c, outcome, rid, state) ==
    [cs EXCEPT ![c] = IF @.status = "pending"
                      THEN [@ EXCEPT !.status = outcome, !.settleCalls = @ + 1,
                                     !.byRid = rid, !.state = state]
                      ELSE [@ EXCEPT !.settleCalls = @ + 1]]

\* the result handler closure that resolves whatever the frame's state
resultHandlerResolve(p, c, rid, state) ==
    LET wasPending == p.calls[c].status = "pending"
        cs1 == settle(p.calls, c, "resolved", rid, state)
        cs2 == [cs1 EXCEPT ![c].handlerCalls = @ + 1]
    IN [p EXCEPT !.calls = cs2,
                 !.timers = IF wasPending THEN SelectSeq(@, LAMBDA x : x # c) ELSE @]

\* the result handler closure of call c, run on a response frame, followed by the
\* continuation of the awaiting call (clearTimeout on success only: a rejected
\* await throws past it)
resultHandler(p, c, rid, state) ==
    LET outcome == IF state # "OK" THEN "rejected" ELSE "resolved"
        wasPending == p.calls[c].status = "pending"
        cs1 == settle(p.calls, c, outcome, rid, state)
        cs2 == [cs1 EXCEPT ![c].handlerCalls = @ + 1]
    IN [p EXCEPT !.calls = cs2,
                 !.timers = IF wasPending /\ outcome = "resolved"
                            THEN SelectSeq(@, LAMBDA x : x # c)
                            ELSE @]

\* processResponse that hands a frame without a listener to the oldest listener
processResponseFallback(p, rid, state) ==
    LET pending == {r \in AllRids : p.handlers[r] # 0}
        r0 == CHOOSE r \in pending : \A q \in pending : p.handlers[r] <= p.handlers[q]
        known == IF p.handlers[rid] # 0 \/ pending = {} THEN rid ELSE r0
    IN IF p.handlers[known] # 0
       THEN resultHandler([p EXCEPT !.handlers[known] = 0], p.handlers[known], rid, state)
       ELSE p

\* processResponse that leaves the listener registered
processResponseKeep(p, rid, state) ==
    LET listener == p.handlers[rid]
    IN IF listener # 0 THEN resultHandler(p, listener, rid, state) ELSE p

\* processResponse that hands the frame to the oldest registered listener
processResponseAny(p, rid, state) ==
    LET pending == {r \in AllRids : p.handlers[r] # 0}
        r0 == CHOOSE r \in pending : \A q \in pending : p.handlers[r] <= p.handlers[q]
    IN IF pending # {}
       THEN resultHandler([p EXCEPT !.handlers[r0] = 0], p.handlers[r0], rid, state)
       ELSE p

\* processResponse on p = [handlers, calls, timers]
processResponse(p, rid, state) ==
    LET listener == p.handlers[rid]
    IN IF listener # 0
       THEN resultHandler([p EXCEPT !.handlers[rid] = 0], listener, rid, state)
       ELSE p

correlator == [handlers |-> eventResultHandlers, calls |-> calls, timers |-> requestTimers]

\* a catch of sendRuntimeUpdate that also retries after a successful update
notChangedCallbackAlways(w, dm, c, wasPending, typeMatches) ==
    IF c # 0 /\ wasPending /\ w.calls[c].attempt > 0
    THEN setGainInternal(w, dm, typeMatches, w.calls[c].attempt - 1).w
    ELSE w

\* the catch of sendRuntimeUpdate, released when the call it awaits is rejected:
\* a rejection with a string reason runs notChangedCallback, which calls
\* setGainInternal(value, --setAndCheckAttempt); any other reason is rethrown
notChangedCallback(w, dm, c, wasPending, typeMatches) ==
    IF /\ c # 0 /\ wasPending /\ w.calls[c].attempt > 0
       /\ \/ w.calls[c].status = "timedOut"
          \/ w.calls[c].status = "rejected" /\ w.calls[c].state = "FAIL"
    THEN setGainInternal(w, dm, typeMatches, w.calls[c].attempt - 1).w
    ELSE w

\* what the lookup of the component may find when call c's catch runs
lookups(c) == IF c # 0 /\ calls[c].attempt > 0 THEN BOOLEAN ELSE {TRUE}

\* processResponse on an inbound frame (data: the design a designLoadResult
\* carries), with the continuation of the call it settles
respond(rid, state, data) ==
    /\ \E typeMatches \in lookups(eventResultHandlers[rid]) :
          LET c == eventResultHandlers[rid]
              p == processResponse(correlator, rid, state)
              wasPending == c # 0 /\ calls[c].status = "pending"
              D == continuation(designState, p.calls, c, wasPending, data)
              w == notChangedCallback([sender EXCEPT !.handlers = p.handlers,
                                                     !.calls = p.calls,
                                                     !.timers = p.timers],
                                      designMetadata, c, wasPending, typeMatches)
          IN /\ eventResultHandlers' = w.handlers
             /\ calls' = w.calls
             /\ requestTimers' = w.timers
             /\ wire' = w.wire
             /\ disconnectEventBuffer' = w.buf
             /\ subscriptionEvents' = w.subs
             /\ msgSeq' = w.msgSeq
             /\ designMetadata' = D.dm
             /\ loads' = D.loads
             /\ retryTimers' = D.retry
    /\ UNCHANGED <<appVars, connVars, device, notices, noticeLoad, budget>>

\* the 60 s timer callback of call c
requestTimeout(p, c) ==
    LET rid == p.calls[c].rid
    IN IF p.handlers[rid] # 0
       THEN [p EXCEPT !.handlers[rid] = 0,
                      !.calls = settle(@, c, "timedOut", 0, "none")]
       ELSE p

\* The oldest armed 60 s timer fires, with the continuation of the call it rejects.
RequestTimerFire ==
    /\ requestTimers # <<>>
    /\ \E typeMatches \in lookups(Head(requestTimers)) :
          LET c == Head(requestTimers)
              p == requestTimeout([correlator EXCEPT !.timers = Tail(requestTimers)], c)
              wasPending == calls[c].status = "pending"
              D == continuation(designState, p.calls, c, wasPending, 0)
              w == notChangedCallback([sender EXCEPT !.handlers = p.handlers,
                                                     !.calls = p.calls,
                                                     !.timers = p.timers],
                                      designMetadata, c, wasPending, typeMatches)
          IN /\ eventResultHandlers' = w.handlers
             /\ calls' = w.calls
             /\ requestTimers' = w.timers
             /\ wire' = w.wire
             /\ disconnectEventBuffer' = w.buf
             /\ subscriptionEvents' = w.subs
             /\ msgSeq' = w.msgSeq
             /\ designMetadata' = D.dm
             /\ loads' = D.loads
             /\ retryTimers' = D.retry
    /\ UNCHANGED <<appVars, lastIn, connVars, device, notices, noticeLoad, budget>>

(* ----- connection lifecycle ----- *)

heartbeat == [interval |-> heartbeatSendingInterval, last |-> lastIncomeHeartbeat]

\* stopSentHeartBeat on h = [interval, last]
stopSentHeartBeat(h) ==
    IF h.interval # 0 THEN [interval |-> 0, last |-> -1] ELSE h

\* startSendHeartBeat: stop the running interval, start one, stamp "now"
startSendHeartBeat(h) ==
    [interval |-> stopSentHeartBeat(h).interval + 1, last |-> 0]

\* isHeartbeatTimeout with a threshold one tick shorter
isHeartbeatTimeoutEarly(last) == last # -1 /\ last > HeartbeatTimeoutTicks - 1

\* isHeartbeatTimeout with a threshold one tick longer
isHeartbeatTimeoutLate(last) == last # -1 /\ last > HeartbeatTimeoutTicks + 1

\* isHeartbeatTimeout with the elapsed time counted in interval ticks
isHeartbeatTimeout(last) == last # -1 /\ last > HeartbeatTimeoutTicks

\* WebSocket.close() as the client calls it
closeSocket(rs, s) ==
    IF s # 0 /\ rs[s] \in {"OPEN", "CONNECTING"} THEN [rs EXCEPT ![s] = "CLOSING"] ELSE rs

\* disconnect() on d = [socket, rs, hb]
disconnect(d) ==
    IF d.socket # 0
    THEN [socket |-> 0,
          rs |-> closeSocket(d.rs, d.socket),
          hb |-> stopSentHeartBeat(d.hb)]
    ELSE d

\* onConnect that flushes the buffer before it replays the registry
onConnectBufferFirst(st, conn, sock) ==
    LET st1 == sendAll([st EXCEPT !.buf = <<>>], conn, sock, st.buf, FALSE)
    IN sendAll(st1, conn, sock, st1.subs, TRUE)

\* onConnect that sends the buffer without emptying it
onConnectKeepBuffer(st, conn, sock) ==
    LET st1 == sendAll(st, conn, sock, st.subs, TRUE)
        st2 == sendAll([st1 EXCEPT !.buf = <<>>], conn, sock, st1.buf, FALSE)
    IN [st2 EXCEPT !.buf = st1.buf]

\* onConnect that empties the registry once it is replayed
onConnectConsumeRegistry(st, conn, sock) ==
    LET st1 == sendAll(st, conn, sock, st.subs, TRUE)
        st2 == sendAll([st1 EXCEPT !.buf = <<>>], conn, sock, st1.buf, FALSE)
    IN [st2 EXCEPT !.subs = <<>>]

\* onConnect: replay the registry, then flush the buffer
onConnect(st, conn, sock) ==
    LET st1 == sendAll(st, conn, sock, st.subs, TRUE)
    IN sendAll([st1 EXCEPT !.buf = <<>>], conn, sock, st1.buf, FALSE)

\* the "open" listener of socket s: onConnect(), which also restarts the
\* heartbeat and registers the heartbeat handler
SocketOpen(s) ==
    /\ readyState[s] = "CONNECTING"
    /\ readyState' = [readyState EXCEPT ![s] = "OPEN"]
    /\ LET st == onConnect(sendState, connected(socket, readyState'), socket)
           hb == startSendHeartBeat(heartbeat)
       IN /\ wire' = st.wire
          /\ disconnectEventBuffer' = st.buf
          /\ subscriptionEvents' = st.subs
          /\ heartbeatSendingInterval' = hb.interval
          /\ lastIncomeHeartbeat' = hb.last
    /\ eventHandlers' = eventHandlers \cup {"heartbeat"}
    /\ UNCHANGED <<appVars, socket, signalled, timerVars, corrVars, msgSeq, designVars, budget>>

\* reconnect(): arm one more 1000 ms timer and keep only its handle
reconnect(r, by) ==
    [r EXCEPT !.timers = Append(@, [id |-> r.seq + 1, by |-> by,
                                    stale |-> (by # 0 /\ by # socket)]),
              !.seq = @ + 1,
              !.handle = r.seq + 1]

reconnector == [timers |-> timers, seq |-> timerSeq, handle |-> reconnectTimeout]

\* the "error" listener of socket s
onError(r, s) == reconnect(r, s)

\* onDisconnect(s), the "close" listener of socket s
onDisconnect(r, s) == IF socket # s THEN r ELSE reconnect(r, s)

\* A socket signals "error". The runtime marks a failed socket CLOSED; the order
\* and the timing of a socket's error and close signals are the runtime's.
SocketError(s) ==
    /\ readyState[s] # "NONE"
    /\ "error" \notin signalled[s]
    /\ budget.errors > 0
    /\ budget' = [budget EXCEPT !.errors = @ - 1]
    /\ signalled' = [signalled EXCEPT ![s] = @ \cup {"error"}]
    /\ readyState' = [readyState EXCEPT ![s] = "CLOSED"]
    /\ LET r == onError(reconnector, s)
       IN /\ timers' = r.timers
          /\ timerSeq' = r.seq
          /\ reconnectTimeout' = r.handle
    /\ UNCHANGED <<appVars, socket, reconnectsFor, hbVars, eventHandlers, sendVars, corrVars,
                   designVars>>

\* A socket signals "close".
SocketClose(s) ==
    /\ readyState[s] # "NONE"
    /\ "close" \notin signalled[s]
    /\ signalled' = [signalled EXCEPT ![s] = @ \cup {"close"}]
    /\ readyState' = [readyState EXCEPT ![s] = "CLOSED"]
    /\ LET r == onDisconnect(reconnector, s)
       IN /\ timers' = r.timers
          /\ timerSeq' = r.seq
          /\ reconnectTimeout' = r.handle
    /\ UNCHANGED <<appVars, socket, reconnectsFor, hbVars, eventHandlers, sendVars, corrVars,
                   designVars, budget>>

\* connect() that leaves the armed reconnect timer alone
connectKeepTimer(k, throws) ==
    IF k.socket # 0
    THEN k
    ELSE IF throws
    THEN [k EXCEPT !.r = reconnect(k.r, 0)]
    ELSE [k EXCEPT !.socket = NewSocketId,
                   !.rs = [@ EXCEPT ![NewSocketId] = "CONNECTING"]]

\* connect() that gives up when the constructor throws
connectNoRetry(k, throws) ==
    LET r1 == [k.r EXCEPT !.timers = clearTimeout(@, k.r.handle)]
    IN IF k.socket # 0 \/ throws
       THEN [k EXCEPT !.r = r1]
       ELSE [k EXCEPT !.r = r1,
                      !.socket = NewSocketId,
                      !.rs = [@ EXCEPT ![NewSocketId] = "CONNECTING"]]

\* connect() on k = [socket, rs, r]: clear the timer this.reconnectTimeout names,
\* return if a socket is held, else construct a WebSocket; a constructor that
\* throws calls reconnect()
connect(k, throws) ==
    LET r1 == [k.r EXCEPT !.timers = clearTimeout(@, k.r.handle)]
    IN IF k.socket # 0
       THEN [k EXCEPT !.r = r1]
       ELSE IF throws
       THEN [k EXCEPT !.r = reconnect(r1, 0)]
       ELSE [k EXCEPT !.r = r1,
                      !.socket = NewSocketId,
                      !.rs = [@ EXCEPT ![NewSocketId] = "CONNECTING"]]

\* The callback of the oldest armed reconnect timer: disconnect(); connect().
ReconnectTimerFire(throws) ==
    /\ timers # <<>>
    /\ IF throws THEN budget.throws > 0 ELSE budget.sockets > 0
    /\ budget' = IF throws THEN [budget EXCEPT !.throws = @ - 1]
                 ELSE [budget EXCEPT !.sockets = @ - 1]
    /\ LET t == Head(timers)
           d == disconnect([socket |-> socket, rs |-> readyState, hb |-> heartbeat])
           k == connect([socket |-> d.socket, rs |-> d.rs,
                         r |-> [reconnector EXCEPT !.timers = Tail(timers)]], throws)
       IN /\ heartbeatSendingInterval' = d.hb.interval
          /\ lastIncomeHeartbeat' = d.hb.last
          /\ socket' = k.socket
          /\ readyState' = k.rs
          /\ timers' = k.r.timers
          /\ timerSeq' = k.r.seq
          /\ reconnectTimeout' = k.r.handle
          /\ reconnectsFor' = IF k.socket # 0 /\ k.socket # socket
                              THEN [reconnectsFor EXCEPT ![t.by] = @ + 1]
                              ELSE reconnectsFor
    /\ UNCHANGED <<appVars, signalled, eventHandlers, sendVars, corrVars, designVars>>

\* One tick of the heartbeat interval: send a heartbeat if connected, then close
\* the socket when no heartbeat came in for longer than the threshold.
HeartbeatTick ==
    /\ heartbeatSendingInterval > 0
    /\ budget.ticks > 0
    /\ budget' = [budget EXCEPT !.ticks = @ - 1]
    /\ LET last == IF lastIncomeHeartbeat = -1 THEN -1 ELSE lastIncomeHeartbeat + 1
           st == IF connected(socket, readyState)
                 THEN sendEvent(sendState, TRUE, socket,
                                [id |-> 0, type |-> "heartbeat", rid |-> 0, sub |-> FALSE], FALSE)
                 ELSE sendState
       IN /\ lastIncomeHeartbeat' = last
          /\ wire' = st.wire
          /\ disconnectEventBuffer' = st.buf
          /\ subscriptionEvents' = st.subs
          /\ readyState' = IF isHeartbeatTimeout(last)
                           THEN closeSocket(readyState, socket)
                           ELSE readyState
          /\ signalled' = IF isHeartbeatTimeout(last) /\ socket # 0
                          THEN [signalled EXCEPT ![socket] = @ \cup {"Missing heartbeat"}]
                          ELSE signalled
    /\ UNCHANGED <<appVars, socket, timerVars, heartbeatSendingInterval, eventHandlers,
                   corrVars, msgSeq, designVars>>

\* the "heartbeat" handler onConnect registered: stamp "now"
heartbeatHandler ==
    /\ lastIncomeHeartbeat' = 0
    /\ UNCHANGED <<appVars, sockVars, timerVars, heartbeatSendingInterval, eventHandlers,
                   sendVars, eventResultHandlers, calls, requestTimers, designVars,
                   budget>>

(* ----- design loads ----- *)

\* initDesign() up to its first await: subscribe to designChangeNotify
InitDesign ==
    /\ designMetadata.state = "NONE"
    /\ "designChangeNotify" \notin eventHandlers
    /\ subscribeToLiveEvent("designChangeNotify")

\* X' as the next state of the loader's and the sender's fields
loaded(X) ==
    /\ designMetadata' = X.D.dm
    /\ loads' = X.D.loads
    /\ retryTimers' = X.D.retry
    /\ eventResultHandlers' = X.w.handlers
    /\ calls' = X.w.calls
    /\ requestTimers' = X.w.timers
    /\ wire' = X.w.wire
    /\ disconnectEventBuffer' = X.w.buf
    /\ subscriptionEvents' = X.w.subs
    /\ msgSeq' = X.w.msgSeq
    /\ budget' = [budget EXCEPT !.calls = @ - (X.w.msgSeq - msgSeq),
                                !.loads = @ - (getIdentifier(X.D.loads)
                                               - getIdentifier(loads))]

\* A design accessor (or a component) calls loadDesign().
LoadDesign ==
    /\ budget.loads > MaxNotices - notices
    /\ LET X == loadDesign([D |-> designState, w |-> sender])
       IN /\ X.w.msgSeq - msgSeq <= budget.calls
          /\ loaded(X)
    /\ UNCHANGED <<appVars, connVars, lastIn, device, notices, noticeLoad>>

\* a designChangeNotify handler that resets the loader and leaves the fetch to
\* the next accessor
designChangeNotifyHandlerLazy(v) ==
    /\ notices < MaxNotices
    /\ device' = v
    /\ notices' = notices + 1
    /\ noticeLoad' = getIdentifier(loads)
    /\ designMetadata' = [designMetadata EXCEPT !.partialDesign = 0, !.state = "NONE"]
    /\ UNCHANGED <<appVars, connVars, sendVars, eventResultHandlers, calls, requestTimers,
                   loads, retryTimers, budget>>

\* the designChangeNotify handler initDesign registered: drop the snapshot, reset
\* the state and call loadDesign(). v is the design the device runs from now on.
designChangeNotifyHandler(v) ==
    /\ notices < MaxNotices
    /\ budget.calls > 0
    /\ device' = v
    /\ notices' = notices + 1
    /\ noticeLoad' = getIdentifier(loads)
    /\ loaded(loadDesign([D |-> [designState EXCEPT !.dm.partialDesign = 0,
                                                    !.dm.state = "NONE"],
                          w |-> sender]))
    /\ UNCHANGED <<appVars, connVars>>

\* RetryUtil's delay timer of the oldest waiting load fires: process() again
RetryTimerFire ==
    /\ retryTimers # <<>>
    /\ budget.calls > 0
    /\ LET l == Head(retryTimers)
       IN loaded(designLoadRequest([D |-> [designState EXCEPT !.retry = Tail(@)],
                                    w |-> sender], l))
    /\ UNCHANGED <<appVars, connVars, lastIn, device, notices, noticeLoad>>

(* ----- IO control: one input pin in digital mode ----- *)

\* pin values in hundredths of the reference voltage
Threshold == 60         \* digital(): value >= 0.6
ChangeDelta == 10       \* isChangeOnInput: Math.abs(current - last) > 0.1
Levels == {0, 55, 62, 75}
MaxListeners == 1       \* onChange callbacks registered under SpecIO

\* IOControlStates.getInputValue(pin): the stored value, 0 without an entry
getInputValue(st) == IF st.value = -1 THEN 0 ELSE st.value

\* digital(pin).getValue()
getValue(st) == getInputValue(st) >= Threshold

\* isChangeOnInput(currentLevelState, lastState)
isChangeOnInput(st, currentLevelState, lastState) ==
    IF st.empty
    THEN FALSE
    ELSE (IF currentLevelState >= lastState THEN currentLevelState - lastState
                                            ELSE lastState - currentLevelState) > ChangeDelta

\* the boolean a callback is called with, as onChange.last records it
passed(b) == IF b THEN "true" ELSE "false"

\* the listener digital(pin).onChange registers, called with (value, oldValue),
\* once for each of the n registered callbacks
digitalListener(oc, n, value, oldValue) ==
    IF (value >= Threshold) # (oldValue >= Threshold)
    THEN [calls |-> oc.calls + n, last |-> IF n > 0 THEN passed(value >= Threshold) ELSE oc.last]
    ELSE oc

\* onControlStateEvent(states) on io = [st, oc], where states lists the pin with
\* value v (v = -1: it lists other input pins only); n listeners are registered
onControlStateEvent(io, n, v) ==
    IF io.st.empty
    THEN [io EXCEPT !.st = [empty |-> FALSE, value |-> v]]
    ELSE IF v = -1
    THEN io
    ELSE LET lastState == getInputValue(io.st)
             isChange == isChangeOnInput(io.st, v, lastState)
         IN [st |-> [io.st EXCEPT !.value = v],
             oc |-> IF isChange THEN digitalListener(io.oc, n, v, lastState) ELSE io.oc]

\* controlInputs.digital(pin).onChange(changeCb)
DigitalOnChange ==
    /\ inputChangeListeners < MaxListeners
    /\ inputChangeListeners' = inputChangeListeners + 1
    /\ UNCHANGED <<inputStates, reported, onChange, lastCommand, retryVars, pagingVars,
                   connVars, sendVars, corrVars, designVars, budget>>

\* receiveMessage of an ioPinStateSubscriptionNotify frame of socket s, which goes
\* to the handler the IOControlStates constructor registered
IoPinStateNotify(s, v) ==
    /\ readyState[s] \in {"OPEN", "CLOSING"}
    /\ budget.states > 0
    /\ budget' = [budget EXCEPT !.states = @ - 1]
    /\ LET io == onControlStateEvent([st |-> inputStates, oc |-> onChange],
                                     inputChangeListeners, v)
       IN /\ inputStates' = io.st
          /\ onChange' = io.oc
    /\ reported' = v
    /\ UNCHANGED <<inputChangeListeners, lastCommand, retryVars, pagingVars,
                   connVars, sendVars, corrVars, designVars>>

(* ----- RetryUtil.runAsync with an explicit retryCount ----- *)

\* a catch block that throws whenever no retry is left to count down
runAsyncCatchNoneLeft(r) ==
    LET retryCount == IF r.left > 0 THEN r.left - 1 ELSE r.left
    IN IF retryCount <= 0
       THEN [r EXCEPT !.left = retryCount, !.status = "threw"]
       ELSE [r EXCEPT !.left = retryCount, !.status = "delaying"]

\* the catch block of runAsync on run record r: count the failure against
\* retryCount unless it is negative, throw at 0, else wait retryDelayMs
runAsyncCatch(r) ==
    LET retryCount == IF r.left > 0 THEN r.left - 1 ELSE r.left
    IN IF retryCount = 0
       THEN [r EXCEPT !.left = retryCount, !.status = "threw"]
       ELSE [r EXCEPT !.left = retryCount, !.status = "delaying"]

\* RetryUtil.runAsync(processInfo, process, retryCount): the first process() call
RunAsync(retryCount) ==
    /\ \E r \in RunIds :
          /\ runs[r].status = "unused"
          /\ \A q \in RunIds : q < r => runs[q].status # "unused"
          /\ runs' = [runs EXCEPT ![r] = [status |-> "awaiting", retryCount |-> retryCount,
                                          left |-> retryCount, invocations |-> 1]]
    /\ UNCHANGED <<lastCommand, ioVars, pagingVars, connVars, sendVars, corrVars, designVars,
                   budget>>

\* the promise process() returned settles: runAsync returns its value, or runs
\* its catch block
ProcessSettles(r, ok) ==
    /\ runs[r].status = "awaiting"
    /\ runs' = [runs EXCEPT ![r] = IF ok THEN [@ EXCEPT !.status = "returned"]
                                         ELSE runAsyncCatch(@)]
    /\ UNCHANGED <<lastCommand, ioVars, pagingVars, connVars, sendVars, corrVars, designVars,
                   budget>>

\* the retryDelayMs timer of run r fires: the loop calls process() again
RetryDelayFire(r) ==
    /\ runs[r].status = "delaying"
    /\ runs[r].invocations < MaxInvocations
    /\ runs' = [runs EXCEPT ![r] = [@ EXCEPT !.status = "awaiting",
                                             !.invocations = @ + 1]]
    /\ UNCHANGED <<lastCommand, ioVars, pagingVars, connVars, sendVars, corrVars, designVars,
                   budget>>

(* ----- script commands ----- *)

\* the script invokes command name, which ends (or reaches its await) with outcome
invoked(name, outcome) ==
    /\ budget.cmds > 0
    /\ budget' = [budget EXCEPT !.cmds = @ - 1]
    /\ lastCommand' = [name |-> name, connected |-> connected(socket, readyState),
                       outcome |-> outcome]
    /\ UNCHANGED <<ioVars, retryVars>>

\* component.getGain() / component.isMute()
GetGain ==
    /\ \E typeMatches \in BOOLEAN :
          invoked("getGain", getGain(connected(socket, readyState), designMetadata,
                                     typeMatches))
    /\ UNCHANGED <<pagingVars, connVars, sendVars, corrVars, designVars>>

\* component.setGain(value) / component.setMute(mute)
SetGain ==
    /\ NextCall - 1 + CHECK_DESIGN_UPDATE_ATTEMPT + budget.calls <= Cardinality(CallIds)
    /\ \E typeMatches \in BOOLEAN :
          LET r == setGain(sender, connected(socket, readyState), designMetadata,
                           typeMatches)
          IN /\ invoked("setGain", r.outcome)
             /\ eventResultHandlers' = r.w.handlers
             /\ calls' = r.w.calls
             /\ requestTimers' = r.w.timers
             /\ wire' = r.w.wire
             /\ disconnectEventBuffer' = r.w.buf
             /\ subscriptionEvents' = r.w.subs
             /\ msgSeq' = r.w.msgSeq
    /\ UNCHANGED <<pagingVars, lastIn, connVars, designVars>>

\* A paging command: playLocalFile / playRemoteFile (callPrepare) or cancelCall.
PagingCommand(name) ==
    /\ LET json == [id |-> msgSeq + 1, type |-> name, rid |-> 0, sub |-> FALSE]
           r == pagingCommand(sendState, connected(socket, readyState), socket, json)
           prepares == name = "callPrepare" /\ r.outcome = "sent"
       IN /\ prepares => actionSeq + 1 \in ActionIds
          /\ invoked(name, r.outcome)
          /\ wire' = r.st.wire
          /\ disconnectEventBuffer' = r.st.buf
          /\ subscriptionEvents' = r.st.subs
          /\ msgSeq' = IF r.outcome = "sent" THEN msgSeq + 1 ELSE msgSeq
          /\ actionSeq' = IF prepares THEN actionSeq + 1 ELSE actionSeq
          /\ callPrepareWaitingMap' = IF prepares
                                      THEN callPrepareWaitingMap \cup {actionSeq + 1}
                                      ELSE callPrepareWaitingMap
    /\ UNCHANGED <<callTimeoutMap, callTimers, busyTimers, callStarts, finished, lastPaging,
                   connVars, corrVars, designVars>>

\* An output pin command: digital(pin).setValue, relay(pin).open / close.
SetOutputValue ==
    /\ LET json == [id |-> msgSeq + 1, type |-> "ioPinOutputSetRawEvent", rid |-> 0,
                    sub |-> FALSE]
           r == setOutputValue(sendState, connected(socket, readyState), socket, json)
       IN /\ invoked("setOutputValue", r.outcome)
          /\ wire' = r.st.wire
          /\ disconnectEventBuffer' = r.st.buf
          /\ subscriptionEvents' = r.st.subs
          /\ msgSeq' = msgSeq + 1
    /\ UNCHANGED <<pagingVars, connVars, corrVars, designVars>>

(* ----- NnPagingRouter: call tracking ----- *)

\* the fields the paging handlers work on
pager == [callPrepareWaitingMap |-> callPrepareWaitingMap, callTimeoutMap |-> callTimeoutMap,
          callTimers |-> callTimers, busyTimers |-> busyTimers, callStarts |-> callStarts,
          send |-> sendState, msgSeq |-> msgSeq]

\* webSocket.sendEvent(createCallStartEvent(actionId))
sendCallStart(P, a) ==
    [P EXCEPT !.send = sendEvent(@, connected(socket, readyState), socket,
                                 [id |-> P.msgSeq + 1, type |-> "callStart", rid |-> 0,
                                  sub |-> FALSE], FALSE),
              !.msgSeq = @ + 1,
              !.callStarts[a] = @ + 1]

\* onCallPrepareResultEvent(event): nothing without a waiting prepare; else stop
\* its timer and, unless the event has a failReason, track the call, arm its
\* 10 min timer and send callStartEvent
onCallPrepareResultEvent(P, a, failReason) ==
    IF a \notin P.callPrepareWaitingMap
    THEN P
    ELSE IF failReason
    THEN [P EXCEPT !.callPrepareWaitingMap = @ \ {a}]
    ELSE sendCallStart([P EXCEPT !.callPrepareWaitingMap = @ \ {a},
                                 !.callTimeoutMap = @ \cup {a},
                                 !.callTimers = @ \cup {a}], a)

\* onCallResultEvent(event): nothing for a call without an entry in
\* callTimeoutMap; BUSY arms the 1 s retry; a failReason or any other state
\* clears the 10 min timer and deletes the actionId from callPrepareWaitingMap
onCallResultEvent(P, a, state, failReason) ==
    IF a \notin P.callTimeoutMap
    THEN P
    ELSE IF ~failReason /\ state = "BUSY"
    THEN [P EXCEPT !.busyTimers = Append(@, a)]
    ELSE [P EXCEPT !.callTimers = @ \ {a},
                   !.callPrepareWaitingMap = @ \ {a}]

\* P' as the next state of the paging router's and the sender's fields
paged(P) ==
    /\ callPrepareWaitingMap' = P.callPrepareWaitingMap
    /\ callTimeoutMap' = P.callTimeoutMap
    /\ callTimers' = P.callTimers
    /\ busyTimers' = P.busyTimers
    /\ callStarts' = P.callStarts
    /\ wire' = P.send.wire
    /\ disconnectEventBuffer' = P.send.buf
    /\ subscriptionEvents' = P.send.subs
    /\ msgSeq' = P.msgSeq

\* receiveMessage of a callPrepareResultEvent frame of socket s
CallPrepareResult(s, a, failReason) ==
    /\ readyState[s] \in {"OPEN", "CLOSING"}
    /\ budget.pages > 0
    /\ budget' = [budget EXCEPT !.pages = @ - 1]
    /\ paged(onCallPrepareResultEvent(pager, a, failReason))
    /\ lastPaging' = [kind |-> "callPrepareResultEvent", actionId |-> a, state |-> "none",
                      failReason |-> failReason, tracked |-> a \in callPrepareWaitingMap]
    /\ UNCHANGED <<actionSeq, finished, lastCommand, ioVars, retryVars, connVars, corrVars,
                   designVars>>

\* receiveMessage of a callResultEvent frame of socket s
CallResult(s, a, state, failReason) ==
    /\ readyState[s] \in {"OPEN", "CLOSING"}
    /\ budget.pages > 0
    /\ budget' = [budget EXCEPT !.pages = @ - 1]
    /\ paged(onCallResultEvent(pager, a, state, failReason))
    /\ finished' = IF a \in callTimeoutMap /\ (failReason \/ state # "BUSY")
                   THEN finished \cup {a}
                   ELSE finished
    /\ lastPaging' = [kind |-> "callResultEvent", actionId |-> a, state |-> state,
                      failReason |-> failReason, tracked |-> a \in callTimeoutMap]
    /\ UNCHANGED <<actionSeq, lastCommand, ioVars, retryVars, connVars, corrVars, designVars>>

\* the 30 s timer of a prepare fires: delete the entry
PrepareTimerFire(a) ==
    /\ a \in callPrepareWaitingMap
    /\ callPrepareWaitingMap' = callPrepareWaitingMap \ {a}
    /\ lastPaging' = [NoPaging EXCEPT !.kind = "prepareTimeout", !.actionId = a]
    /\ UNCHANGED <<callTimeoutMap, callTimers, busyTimers, actionSeq, callStarts, finished,
                   lastCommand, ioVars, retryVars, connVars, sendVars, corrVars, designVars,
                   budget>>

\* the 10 min timer of a call fires: delete the entry
CallTimerFire(a) ==
    /\ a \in callTimers
    /\ callTimers' = callTimers \ {a}
    /\ callTimeoutMap' = callTimeoutMap \ {a}
    /\ lastPaging' = [NoPaging EXCEPT !.kind = "callTimeout", !.actionId = a]
    /\ UNCHANGED <<callPrepareWaitingMap, busyTimers, actionSeq, callStarts, finished,
                   lastCommand, ioVars, retryVars, connVars, sendVars, corrVars, designVars,
                   budget>>

\* the oldest 1 s retry timer fires: send callStartEvent again
BusyTimerFire ==
    /\ busyTimers # <<>>
    /\ paged(sendCallStart([pager EXCEPT !.busyTimers = Tail(@)], Head(busyTimers)))
    /\ lastPaging' = [NoPaging EXCEPT !.kind = "busyRetry", !.actionId = Head(busyTimers),
                                      !.tracked = Head(busyTimers) \in callTimeoutMap]
    /\ UNCHANGED <<actionSeq, finished, lastCommand, ioVars, retryVars, connVars, corrVars,
                   designVars, budget>>

(* ----- inbound frames ----- *)

\* receiveMessage's dispatch that looks for an event handler of the type first
routeByType(handlers, type, rid) ==
    IF type \in handlers THEN type ELSE IF rid # 0 THEN "response" ELSE "none"

\* receiveMessage's dispatch: a frame with a requestId goes to processResponse,
\* any other frame to the event handler registered for its type, if any
route(handlers, type, rid) ==
    IF rid # 0 THEN "response" ELSE IF type \in handlers THEN type ELSE "none"

\* receiveMessage of a frame [type, requestId, state, data] of socket s. An
\* application's handler ("notify") has no state of its own.
ReceiveMessage(s, type, rid, state, data) ==
    /\ readyState[s] \in {"OPEN", "CLOSING"}
    /\ LET r == route(eventHandlers, type, rid)
       IN /\ lastIn' = [type |-> r, kind |-> type, rid |-> rid, state |-> state,
                        listener |-> IF r = "response" /\ rid # 0
                                     THEN eventResultHandlers[rid] ELSE 0]
          /\ IF r = "response" /\ rid # 0
             THEN respond(rid, state, data)
             ELSE IF r = "heartbeat"
             THEN heartbeatHandler
             ELSE IF r = "designChangeNotify"
             THEN designChangeNotifyHandler(data)
             ELSE UNCHANGED <<appVars, connVars, sendVars, eventResultHandlers, calls,
                              requestTimers, designVars, budget>>

\* receiveMessage of a frame that carries a requestId
ReceiveResponse(s, rid, state, data) == ReceiveMessage(s, "result", rid, state, data)

\* receiveMessage of a "heartbeat" frame once onConnect has registered the handler
ReceiveHeartbeat(s) ==
    /\ "heartbeat" \in eventHandlers
    /\ ReceiveMessage(s, "heartbeat", 0, "none", 0)

\* receiveMessage of a designChangeNotify frame once initDesign has subscribed
DesignChangeNotify(s, v) ==
    /\ "designChangeNotify" \in eventHandlers
    /\ ReceiveMessage(s, "designChangeNotify", 0, "none", v)

(* ----- specifications ----- *)

\* the connection manager under every socket signal, constructor failures and
\* the heartbeat
InitConn == InitWith([NoBudget EXCEPT !.sockets = MaxSockets - 1, !.throws = MaxThrows,
                                      !.errors = MaxErrors, !.ticks = MaxTicks])
NextConn ==
    \/ \E s \in SocketIds : SocketOpen(s)
    \/ \E s \in SocketIds : SocketError(s)
    \/ \E s \in SocketIds : SocketClose(s)
    \/ \E throws \in BOOLEAN : ReconnectTimerFire(throws)
    \/ HeartbeatTick
    \/ \E s \in SocketIds : ReceiveHeartbeat(s)
SpecConn == InitConn /\ [][NextConn]_vars

\* the connection manager with the scheduling the event loop and the runtime
\* give: an armed timer fires, a closing handshake ends with the close signal
closing(s) == readyState[s] = "CLOSING" /\ SocketClose(s)
InitLive == InitWith([NoBudget EXCEPT !.sockets = LiveSockets - 1, !.throws = LiveThrows,
                                      !.errors = LiveErrors, !.ticks = LiveTicks])
FairLive ==
    /\ WF_vars(\E throws \in BOOLEAN : ReconnectTimerFire(throws))
    /\ WF_vars(\E s \in SocketIds : closing(s))
SpecLive == InitLive /\ [][NextConn]_vars /\ FairLive

\* the senders (plain, subscription, request) across connection cycles
InitSend == InitWith([NoBudget EXCEPT !.sockets = SendSockets - 1, !.msgs = MaxMsgs,
                                      !.calls = SendCalls, !.errors = SendErrors])
NextSend ==
    \/ SendPlainEvent
    \/ SubscribeToLiveEvent
    \/ \E isSub \in BOOLEAN : SendEventWithResponse(1, isSub)
    \/ \E s \in SocketIds : SocketOpen(s)
    \/ \E s \in SocketIds : SocketError(s)
    \/ \E s \in SocketIds : SocketClose(s)
    \/ ReconnectTimerFire(FALSE)
SpecSend == InitSend /\ [][NextSend]_vars

\* the request correlator across a connection loss
InitCorr == InitWith([NoBudget EXCEPT !.sockets = CorrSockets - 1, !.calls = MaxCalls])
NextCorr ==
    \/ \E rid \in Rids : SendEventWithResponse(rid, FALSE)
    \/ \E s \in SocketIds, rid \in Rids, state \in {"OK", "FAIL"} :
          ReceiveResponse(s, rid, state, 0)
    \/ RequestTimerFire
    \/ \E s \in SocketIds : SocketOpen(s)
    \/ \E s \in SocketIds : SocketClose(s)
    \/ ReconnectTimerFire(FALSE)
SpecCorr == InitCorr /\ [][NextCorr]_vars

\* the inbound dispatcher: frames of every type, with and without a requestId,
\* against pending requests, a subscribed handler and the heartbeat handler
Frames == {f \in [type : {"heartbeat", "notify", "result"}, rid : {0} \cup Rids,
                  state : {"none", "OK", "FAIL"}] :
              (f.rid = 0) <=> (f.state = "none")}
InitRecv == InitWith([NoBudget EXCEPT !.calls = RecvCalls, !.msgs = RecvSubs,
                                      !.ticks = RecvTicks])
NextRecv ==
    \/ \E rid \in Rids : SendEventWithResponse(rid, FALSE)
    \/ SubscribeToLiveEvent
    \/ \E s \in SocketIds : SocketOpen(s)
    \/ HeartbeatTick
    \/ RequestTimerFire
    \/ \E s \in SocketIds, f \in Frames : ReceiveMessage(s, f.type, f.rid, f.state, 0)
SpecRecv == InitRecv /\ [][NextRecv]_vars

\* the design loader over an open connection: accessors' loads, change notices,
\* load responses, request timeouts and retries
InitDesign0 == InitWith([NoBudget EXCEPT !.msgs = 1, !.calls = MaxRequests,
                                         !.loads = MaxLoads + MaxNotices])
\* the device answers the load requests written to a socket, each once
answerable == {r \in AllRids : /\ eventResultHandlers[r] # 0
                               /\ \E i \in DOMAIN wire : wire[i].msg.rid = r}
NextDesign ==
    \/ InitDesign
    \/ LoadDesign
    \/ \E s \in SocketIds, v \in {0, notices + 2} : DesignChangeNotify(s, v)
    \/ \E s \in SocketIds, rid \in answerable, state \in {"OK", "FAIL"},
          data \in {device, -1} : ReceiveResponse(s, rid, state, data)
    \/ RequestTimerFire
    \/ RetryTimerFire
    \/ \E s \in SocketIds : SocketOpen(s)
SpecDesign == InitDesign0 /\ [][NextDesign]_vars

\* a script's commands around a connection loss, with one design load
InitCmd == InitWith([NoBudget EXCEPT !.sockets = CmdSockets - 1, !.cmds = CmdCommands,
                                     !.calls = CmdRequests,
                                     !.loads = MaxNotices + 1])
NextCmd ==
    \/ LoadDesign
    \/ GetGain
    \/ SetGain
    \/ \E name \in {"callPrepare", "callCancel"} : PagingCommand(name)
    \/ SetOutputValue
    \/ \E s \in SocketIds, rid \in answerable, state \in {"OK", "FAIL", "FAIL_NO_REASON"} :
          ReceiveResponse(s, rid, state, device)
    \/ RequestTimerFire
    \/ \E s \in SocketIds : SocketOpen(s)
    \/ \E s \in SocketIds : SocketClose(s)
    \/ ReconnectTimerFire(FALSE)
SpecCmd == InitCmd /\ [][NextCmd]_vars

\* one digital input pin: its onChange callback and the state events of the device
InitIO == InitWith([NoBudget EXCEPT !.sockets = 1, !.states = MaxStateEvents])
NextIO ==
    \/ DigitalOnChange
    \/ \E s \in SocketIds, v \in Levels \cup {-1} : IoPinStateNotify(s, v)
    \/ \E s \in SocketIds : SocketOpen(s)
    \/ \E s \in SocketIds : SocketClose(s)
    \/ ReconnectTimerFire(FALSE)
SpecIO == InitIO /\ [][NextIO]_vars

\* callers of RetryUtil.runAsync with the default retryCount (-1) or one of
\* 1..MaxRetryCount
InitRetry == InitWith(NoBudget)
NextRetry ==
    \/ \E retryCount \in {-1} \cup 1..MaxRetryCount : RunAsync(retryCount)
    \/ \E r \in RunIds, ok \in BOOLEAN : ProcessSettles(r, ok)
    \/ \E r \in RunIds : RetryDelayFire(r)
SpecRetry == InitRetry /\ [][NextRetry]_vars

\* the paging router: calls a script starts, the device's prepare and call result
\* frames (0: an actionId it never got), and the router's timers
CallResultStatus == {"DONE", "BUSY", "FAILED"}
InitPaging == InitWith([NoBudget EXCEPT !.cmds = MaxActions, !.pages = MaxPagingFrames])
NextPaging ==
    \/ PagingCommand("callPrepare")
    \/ \E s \in SocketIds, a \in 0..MaxActions, failReason \in BOOLEAN :
          CallPrepareResult(s, a, failReason)
    \/ \E s \in SocketIds, a \in 0..MaxActions, state \in CallResultStatus,
          failReason \in BOOLEAN : CallResult(s, a, state, failReason)
    \/ \E a \in ActionIds : PrepareTimerFire(a)
    \/ \E a \in ActionIds : CallTimerFire(a)
    \/ BusyTimerFire
    \/ \E s \in SocketIds : SocketOpen(s)
SpecPaging == InitPaging /\ [][NextPaging]_vars

(* ------------------- properties of the request correlator -------------- *)

Range(f) == {f[i] : i \in DOMAIN f}

\* C1: a pending request is settled by a response at most once: its handler runs
\* at most once, running it takes it out of the pending-request map (so a second
\* frame with the same requestId finds no listener), and a call is settled by a
\* response exactly when its handler ran.
C1_SettledAtMostOnce ==
    \A c \in CallIds :
        /\ calls[c].handlerCalls <= 1
        /\ calls[c].handlerCalls = 1 => \A r \in AllRids : eventResultHandlers[r] # c
        /\ calls[c].handlerCalls = 1 <=> calls[c].status \in {"resolved", "rejected"}
        /\ (lastIn.type = "response" /\ lastIn.listener = 0 /\ calls[c].rid = lastIn.rid
              /\ calls[c].status \in {"resolved", "rejected"})
           => calls[c].handlerCalls = 1

\* a second response frame for a requestId arrived after the first one resolved
\* the call, and found no listener
C1_Witness ==
    \E c \in CallIds :
        /\ calls[c].status = "resolved"
        /\ lastIn.type = "response" /\ lastIn.rid = calls[c].rid /\ lastIn.listener = 0
        /\ eventResultHandlers[calls[c].rid] = 0

\* C2: every call settled by a response was settled by a frame carrying its own
\* requestId, and every entry of the pending-request map belongs to a pending
\* call with that requestId.
C2_SettledByOwnResponse ==
    /\ \A c \in CallIds :
          calls[c].status \in {"resolved", "rejected"} => calls[c].byRid = calls[c].rid
    /\ \A r \in AllRids :
          eventResultHandlers[r] # 0 =>
             /\ calls[eventResultHandlers[r]].rid = r
             /\ calls[eventResultHandlers[r]].status = "pending"

\* two calls with distinct requestIds were outstanding and the later call's
\* response arrived first
C2_Witness ==
    /\ calls[1].status = "pending" /\ eventResultHandlers[calls[1].rid] = 1
    /\ calls[2].status = "resolved"
    /\ calls[1].rid # calls[2].rid

\* C3: a call whose 60 s deadline has passed without a matching response is
\* rejected with the timeout error (it is not left pending), and a timed-out call
\* is out of the pending-request map and was never handed a response.
C3_TimeoutRejects ==
    \A c \in CallIds :
        /\ calls[c].status = "pending" => c \in Range(requestTimers)
        /\ calls[c].status = "timedOut" =>
              /\ calls[c].handlerCalls = 0
              /\ \A r \in AllRids : eventResultHandlers[r] # c

\* the current step is the expiry of the 60 s timer of call d
expires(d) == d \in Range(requestTimers) /\ d \notin Range(requestTimers')

\* C31: the expiry of the 60 s timer of a call that a matching response has
\* already settled removes no entry from the pending-request map and settles
\* no call, also when a later call has reused the requestId.
C31_TimerAffectsOwnCallOnly ==
    [][\A d \in CallIds :
          (expires(d) /\ calls[d].status \in {"resolved", "rejected"}) =>
             /\ eventResultHandlers' = eventResultHandlers
             /\ \A c \in CallIds : calls'[c].status = calls[c].status]_vars

\* C13: the step in which a call's result handler runs is the arrival of a
\* response frame with the call's requestId; it removes the pending request and
\* settles the call by that frame: rejected (with the frame's failReason) when the
\* frame's state is not "OK", resolved (with the frame) when it is.
C13_SettledByFrameState ==
    [][\A c \in CallIds :
          calls'[c].handlerCalls > calls[c].handlerCalls =>
             /\ lastIn'.type = "response" /\ lastIn'.listener = c
             /\ lastIn'.rid = calls[c].rid
             /\ eventResultHandlers'[calls[c].rid] = 0
             /\ calls'[c].status = IF lastIn'.state = "OK" THEN "resolved" ELSE "rejected"
             /\ calls'[c].state = lastIn'.state
             /\ calls'[c].byRid = lastIn'.rid]_vars

\* one call was rejected by a "FAIL" frame and another resolved by an "OK" frame
C13_Witness ==
    \E c, d \in CallIds :
        /\ calls[c].status = "rejected" /\ calls[c].state = "FAIL"
        /\ calls[d].status = "resolved" /\ calls[d].state = "OK"
        /\ eventResultHandlers[calls[c].rid] = 0 /\ eventResultHandlers[calls[d].rid] = 0

\* C14: a frame whose requestId matches no pending request changes nothing: the
\* pending-request map, the event handler table, the registry, the buffer, the
\* calls (no promise settled, no result handler run), the heartbeat stamp (no
\* event handler run), the design and the socket writes stay as they were.
C14_UnknownResponseNoOp ==
    [][(lastIn' # lastIn /\ lastIn'.rid # 0 /\ eventResultHandlers[lastIn'.rid] = 0)
          => UNCHANGED <<eventResultHandlers, eventHandlers, subscriptionEvents,
                         disconnectEventBuffer, calls, requestTimers, hbVars,
                         designVars, wire>>]_vars

\* a frame of type "heartbeat" with a requestId nobody waits for arrived while
\* another request was pending and the heartbeat handler was registered
C14_Witness ==
    /\ lastIn.rid # 0 /\ lastIn.listener = 0 /\ lastIn.kind = "heartbeat"
    /\ "heartbeat" \in eventHandlers
    /\ lastIncomeHeartbeat = 1
    /\ \E c \in CallIds : calls[c].status = "pending" /\ calls[c].rid # lastIn.rid
                            /\ eventResultHandlers[calls[c].rid] = c

\* C15: a registered pending request stays registered and pending across every
\* step (socket signals, teardown and reconnect included) except the arrival of
\* its matching response and the expiry of its own 60 s timer, which rejects it
\* with the timeout error.
C15_PendingSurvivesConnectionLoss ==
    [][\A c \in CallIds :
          (calls[c].status = "pending" /\ eventResultHandlers[calls[c].rid] = c) =>
             \/ calls'[c].status = "pending" /\ eventResultHandlers'[calls[c].rid] = c
             \/ /\ calls'[c].handlerCalls = 1
                /\ lastIn'.type = "response" /\ lastIn'.rid = calls[c].rid
             \/ /\ requestTimers # <<>> /\ Head(requestTimers) = c
                /\ calls'[c].status = "timedOut"]_vars

\* C18: an inbound frame with a requestId goes to processResponse only and runs
\* no event handler, whatever its type; an inbound frame without one settles no
\* call, leaves the pending-request map alone and runs the handler registered for
\* its type, or none.
C18_RequestIdDiscriminates ==
    [][lastIn' # lastIn =>
          IF lastIn'.rid # 0
          THEN /\ lastIn'.type = "response"
               /\ lastIn'.listener = eventResultHandlers[lastIn'.rid]
               /\ UNCHANGED <<hbVars, eventHandlers, designMetadata>>
          ELSE /\ lastIn'.type = IF lastIn'.kind \in eventHandlers
                                 THEN lastIn'.kind ELSE "none"
               /\ lastIn'.type # "heartbeat" => UNCHANGED hbVars
               /\ UNCHANGED <<eventResultHandlers, calls, requestTimers>>]_vars

\* a frame of type "heartbeat" carrying the requestId of a pending call settled
\* that call and left the heartbeat stamp alone
C18_Witness ==
    /\ lastIn.kind = "heartbeat" /\ lastIn.listener # 0
    /\ calls[lastIn.listener].status = "resolved"
    /\ "heartbeat" \in eventHandlers
    /\ lastIncomeHeartbeat = 1

(* ------------------- properties of the senders -------------------------- *)

\* the frames msgs as written to socket s
writes(s, msgs) == [i \in 1..Len(msgs) |-> [sock |-> s, msg |-> msgs[i]]]

\* C4: the step in which a socket opens writes to that socket every registry
\* entry once in registration order, then every Disconnect Buffer message, and
\* nothing else.
C4_ReplayThenFlush ==
    [][\A s \in SocketIds :
          (readyState[s] = "CONNECTING" /\ readyState'[s] = "OPEN") =>
             wire' = wire \o writes(s, subscriptionEvents)
                          \o writes(s, disconnectEventBuffer)]_vars

\* a reconnect replayed two subscriptions and then flushed a message that was
\* sent, while disconnected, before the second subscription was registered
C4_Witness ==
    /\ Len(subscriptionEvents) >= 2
    /\ \E i, j \in DOMAIN wire :
          /\ i < j
          /\ wire[i].sock = 2 /\ wire[j].sock = 2
          /\ wire[i].msg.sub /\ ~wire[j].msg.sub
          /\ wire[j].msg.id < wire[i].msg.id

\* the non-subscription frames of a sequence of writes, heartbeats aside
plainIds(w) ==
    LET kept == SelectSeq(w, LAMBDA x : ~x.msg.sub /\ x.msg.id # 0)
    IN [i \in 1..Len(kept) |-> kept[i].msg.id]

bufferIds == [i \in 1..Len(disconnectEventBuffer) |-> disconnectEventBuffer[i].id]

increasing(q) == \A i, j \in DOMAIN q : i < j => q[i] < q[j]

\* C5: every non-subscription message handed to sendEvent is either waiting in
\* the Disconnect Buffer or was written exactly once; written and waiting
\* messages keep the order of the sendEvent calls; the buffer is empty whenever
\* the socket is open.
C5_BufferExactlyOnceInOrder ==
    /\ increasing(plainIds(wire) \o bufferIds)
    /\ LET nonSub == Cardinality({c \in CallIds : calls[c].status # "unused"})
                     + (MaxMsgs - budget.msgs) - Len(subscriptionEvents)
       IN Len(plainIds(wire)) + Len(bufferIds) = nonSub
    /\ connected(socket, readyState) => disconnectEventBuffer = <<>>

\* two messages buffered while disconnected were flushed to the socket of a
\* reconnect, in order
C5_Witness ==
    /\ disconnectEventBuffer = <<>>
    /\ \E i, j \in DOMAIN wire :
          /\ i < j /\ wire[i].sock = 2 /\ wire[j].sock = 2
          /\ ~wire[i].msg.sub /\ ~wire[j].msg.sub
          /\ wire[i].msg.id # 0 /\ wire[j].msg.id # 0
          /\ \E k \in DOMAIN wire : k < i /\ wire[k].sock = 2 /\ wire[k].msg.sub
                                    /\ wire[k].msg.id > wire[j].msg.id

\* the request frames handed to sendEvent so far: each one is written, waiting
\* in the Disconnect Buffer, or recorded in the registry
requestFrames ==
    {m \in Range([i \in DOMAIN wire |-> wire[i].msg]) \cup Range(disconnectEventBuffer)
           \cup Range(subscriptionEvents) : m.type = "request"}

\* the number of times frame m was written, to any socket / to socket s
writesOf(m) == Cardinality({i \in DOMAIN wire : wire[i].msg = m})
writesOn(m, s) == Cardinality({i \in DOMAIN wire : wire[i].msg = m /\ wire[i].sock = s})

\* C16 as stated: the request frame of every sendEventWithResponse call, with or
\* without the subscription flag, is written at most once over the execution,
\* and exactly once as soon as the socket is open.
C16_RequestWrittenOnce ==
    \A m \in requestFrames :
        /\ writesOf(m) <= 1
        /\ connected(socket, readyState) => writesOf(m) = 1

\* C16, amended: a request without the subscription flag is written exactly
\* once (at once if connected, else at the next successful connect) and never
\* again; a request with the flag is written at most once to each socket, and
\* whenever a socket is open (the first or that of any later reconnect) it was
\* written to that socket exactly once.
C16_RequestWrittenOncePerConnect ==
    \A m \in requestFrames :
        /\ \A s \in SocketIds : writesOn(m, s) <= 1
        /\ ~m.sub => writesOf(m) <= 1
        /\ (~m.sub /\ connected(socket, readyState)) => writesOf(m) = 1
        /\ (m.sub /\ connected(socket, readyState)) => writesOn(m, socket) = 1

\* a subscription-flagged request was written when it was sent and once more
\* when the socket of the reconnect opened
C16_Witness ==
    \E m \in requestFrames : m.sub /\ writesOn(m, 1) = 1 /\ writesOn(m, 2) = 1

\* q1 is q with the frame of the current send (identifier msgSeq') appended
appended(q, q1, flagged) ==
    /\ Len(q1) = Len(q) + 1
    /\ SubSeq(q1, 1, Len(q)) = q
    /\ q1[Len(q1)].id = msgSeq' /\ q1[Len(q1)].sub = flagged

\* C17: a send while the socket is not open writes nothing; flagged as a
\* subscription it leaves the Disconnect Buffer unchanged (the payload is in the
\* registry, and every registry entry has been written to the socket whenever
\* it is open); not flagged it is appended to the end of the Disconnect Buffer
\* and the registry stays as it was.
C17_SendWhileNotOpen ==
    /\ [][(msgSeq' = msgSeq + 1 /\ ~connected(socket, readyState)) =>
             /\ wire' = wire
             /\ \/ /\ appended(subscriptionEvents, subscriptionEvents', TRUE)
                   /\ disconnectEventBuffer' = disconnectEventBuffer
                \/ /\ appended(disconnectEventBuffer, disconnectEventBuffer', FALSE)
                   /\ subscriptionEvents' = subscriptionEvents]_vars
    /\ [](connected(socket, readyState) =>
             \A m \in Range(subscriptionEvents) : writesOn(m, socket) = 1)

\* a plain message and, after it, a subscription were sent while the socket was
\* not open; the socket that opened next got the subscription by replay and
\* then the buffered message, each once
C17_Witness ==
    /\ disconnectEventBuffer = <<>>
    /\ \E i, j \in DOMAIN wire :
          /\ i < j /\ wire[i].sock = wire[j].sock
          /\ wire[i].msg.sub /\ ~wire[j].msg.sub /\ wire[j].msg.id # 0
          /\ wire[j].msg.id < wire[i].msg.id
          /\ wire[i].msg \in Range(subscriptionEvents)
          /\ wire[j].msg \notin Range(subscriptionEvents)
          /\ writesOf(wire[i].msg) = 1 /\ writesOf(wire[j].msg) = 1

\* the current step is a send whose frame is not flagged as a subscription: the
\* frame is the last one written or the last one buffered
plainSent ==
    \/ /\ Len(wire') = Len(wire) + 1
       /\ wire'[Len(wire')].msg.id = msgSeq' /\ ~wire'[Len(wire')].msg.sub
    \/ appended(disconnectEventBuffer, disconnectEventBuffer', FALSE)

\* what a frame carries, the identity of the call that sent it aside
payload(m) == [type |-> m.type, rid |-> m.rid, sub |-> m.sub]

\* C19: the Subscription Registry is append-only: a subscription-flagged send
\* appends exactly one entry at the end, whatever the payload, so the registry
\* holds one entry per flagged send; every other step (an unflagged send, an
\* open with its replay, an error, a close, disconnect() before a reconnect)
\* leaves the registry as it was.
C19_RegistryAppendOnly ==
    /\ [][IF msgSeq' = msgSeq + 1 /\ ~plainSent
          THEN appended(subscriptionEvents, subscriptionEvents', TRUE)
          ELSE subscriptionEvents' = subscriptionEvents]_vars
    /\ [](Len(subscriptionEvents) + Len(plainIds(wire)) + Len(bufferIds) = msgSeq)

\* two subscriptions with the same payload are both in the registry, in the
\* order of the calls, after a reconnect replayed both to the second socket
C19_Witness ==
    /\ Len(subscriptionEvents) = 2
    /\ payload(subscriptionEvents[1]) = payload(subscriptionEvents[2])
    /\ subscriptionEvents[1].id < subscriptionEvents[2].id
    /\ \A i \in 1..2 : /\ writesOn(subscriptionEvents[i], 1) = 1
                       /\ writesOn(subscriptionEvents[i], 2) = 1

(* ------------------- properties of the design loader -------------------- *)

\* the design load requests awaiting a response
fetchesInFlight == {c \in CallIds : calls[c].status = "pending" /\ calls[c].owner # 0}

\* C6: in every reachable state, under any interleaving of loadDesign calls,
\* designChangeNotify frames and load responses, at most one design load request
\* is in flight.
C6_OneFetchInFlight == Cardinality(fetchesInFlight) <= 1

\* C7: a loadDesign call issued while a load request is in flight sends no request
\* of its own, and it completes with the outcome of the loader it waited for: both
\* return having seen the same state and the same snapshot, or both throw.
C7_JoinersShareTheFetch ==
    \A l \in LoadIds :
        loads[l].joined =>
            /\ loads[l].requests = 0
            /\ (loads[l].status \in Completed /\ loads[l].behind # 0)
                  => /\ loads[loads[l].behind].status = loads[l].status
                     /\ loads[loads[l].behind].sawState = loads[l].sawState
                     /\ loads[loads[l].behind].sawDesign = loads[l].sawDesign

\* C8: after a designChangeNotify, until the load it started completes, no
\* loadDesign call issued after the notice sends a load request.
C8_OneFetchAfterNotice ==
    (noticeLoad # 0 /\ loads[noticeLoad].status \notin Completed)
        => \A l \in LoadIds : l > noticeLoad => loads[l].requests = 0

\* the loadDesign calls issued since the latest designChangeNotify (the call of
\* the notice handler included) that sent a load request to the device
fetchersSinceNotice == {l \in LoadIds : l >= noticeLoad /\ loads[l].requests > 0}

\* C20: between two consecutive designChangeNotify frames (before the first one,
\* after the last one) at most one loadDesign call fetches the design from the
\* device, whether the calls overlap or follow one another.
C20_OneFetchPerInvalidation == Cardinality(fetchersSinceNotice) <= 1

\* the load requests of load l, and the first one the latest designChangeNotify
\* handler sent
fetchesOf(l) == {c \in CallIds : calls[c].owner = l /\ calls[c].status # "unused"}
noticeFetch == CHOOSE c \in fetchesOf(noticeLoad) : \A d \in fetchesOf(noticeLoad) : c <= d

\* load l ends the current step by caching the design its response carries
caches(l) ==
    /\ loads[l].status = "fetching"
    /\ loads'[l].status = "returned" /\ loads'[l].sawState = "DONE"

\* C32: after a designChangeNotify, the response that becomes the cached snapshot
\* (state DONE) answers a load request sent after that notice (requests are
\* numbered in sending order), never one sent before it.
C32_SnapshotFromFetchAfterNotice ==
    [][\A l \in LoadIds :
          (noticeLoad # 0 /\ caches(l)) =>
             \A c \in fetchesOf(l) :
                calls[c].status = "pending" => c >= noticeFetch]_vars

\* the loads in progress: awaiting a response or RetryUtil's delay
inProgress == {l \in LoadIds : loads[l].status \in {"fetching", "retryWait"}}

\* C33: every loadDesign call completes once the fetches are answered. The
\* coordinator is never in state LOADING with no load in progress, and no call
\* is queued (waiting for a loader to finish) while no load is in progress, also
\* after a load that ended with an exception.
C33_LoadingHasLoader ==
    /\ designMetadata.state = "LOADING" => inProgress # {}
    /\ (\E l \in LoadIds : loads[l].status = "queued") => inProgress # {}

\* the current step handles a designChangeNotify frame
noticeStep == notices' = notices + 1

\* C21 as stated: a designChangeNotify frame only resets the state to NONE and
\* drops the snapshot; the step sends no load request.
C21_NoticeOnlyResets ==
    [][noticeStep => /\ designMetadata'.state = "NONE"
                     /\ designMetadata'.partialDesign = 0
                     /\ msgSeq' = msgSeq
                     /\ calls' = calls]_vars

\* C21, amended: the handler of a designChangeNotify frame drops the snapshot
\* and calls loadDesign() itself: in the same step the state is LOADING under
\* the identifier of the handler's own load, and that load has sent one load
\* request (written or buffered), whatever the state was before, a fetch in
\* flight included.
C21_NoticeReloadsEagerly ==
    [][noticeStep =>
          LET l == noticeLoad'
          IN /\ designMetadata'.partialDesign = 0
             /\ designMetadata'.state = "LOADING"
             /\ designMetadata'.loaderIdentifier = l
             /\ loads[l].status = "unused" /\ loads'[l].status = "fetching"
             /\ loads'[l].requests = 1
             /\ msgSeq' = msgSeq + 1
             /\ \E c \in CallIds : /\ calls[c].status = "unused"
                                   /\ calls'[c].status = "pending"
                                   /\ calls'[c].owner = l
                                   /\ eventResultHandlers'[calls'[c].rid] = c
             /\ \/ /\ Len(wire') = Len(wire) + 1
                   /\ wire'[Len(wire')].msg.id = msgSeq'
                   /\ wire'[Len(wire')].msg.type = "request"
                \/ appended(disconnectEventBuffer, disconnectEventBuffer', FALSE)]_vars

\* a design was loaded, a notice dropped it, and the notice handler's own load
\* is fetching with no other loadDesign call made since
C21_Witness ==
    /\ noticeLoad > 1
    /\ \E l \in 1..(noticeLoad - 1) : loads[l].status = "returned" /\ loads[l].sawState = "DONE"
    /\ loads[noticeLoad].status = "fetching"
    /\ getIdentifier(loads) = noticeLoad + 1
    /\ designMetadata.state = "LOADING" /\ designMetadata.partialDesign = 0

\* C22: the loader's state changes only from NONE to LOADING on a load request,
\* from LOADING to DONE or ERROR when the fetch is answered, and from DONE or
\* ERROR to NONE on a designChangeNotify (whose handler goes on to LOADING in
\* the same step); a notice never resets a LOADING state.
C22_StateMachine ==
    [][/\ noticeStep => designMetadata.state # "LOADING"
       /\ designMetadata'.state # designMetadata.state =>
             \/ designMetadata.state = "NONE" /\ designMetadata'.state = "LOADING"
             \/ /\ designMetadata.state = "LOADING"
                /\ designMetadata'.state \in {"DONE", "ERROR"}
             \/ /\ noticeStep
                /\ designMetadata.state \in {"DONE", "ERROR"}
                /\ designMetadata'.state = "LOADING"]_vars

\* C23: a loadDesign call an accessor makes while a load request is in flight
\* is queued, and a queued call completes only in the step in which the loader
\* it was queued behind (the current loader at the time of the call) completes.
C23_QueuedUntilLoaderFinishes ==
    [][\A l \in LoadIds :
          /\ (loads[l].status = "unused" /\ loads'[l].status # "unused"
              /\ fetchInFlight(calls) /\ ~noticeStep)
                => (loads'[l].status = "queued" /\ loads'[l].requests = 0)
          /\ (loads[l].status = "queued" /\ loads'[l].status # "queued")
                => /\ loads[loads[l].behind].status \notin Completed
                   /\ loads'[loads[l].behind].status \in Completed]_vars

\* every design accessor throws "Design is not available."
unavailable(dm) ==
    /\ getComponentId(dm) = "Design is not available."
    /\ \A typeMatches \in BOOLEAN :
          getComponentMetadata(dm, typeMatches) = "Design is not available."

\* the current step completes load l with the outcome state st
completes(l, st) ==
    /\ loads[l].status = "fetching"
    /\ loads'[l].status = "returned" /\ loads'[l].sawState = st

C35_DoneHasSnapshot ==
    /\ designMetadata.state = "DONE" =>
          /\ designMetadata.partialDesign # 0
          /\ getComponentId(designMetadata) = "id"
    /\ designMetadata.state \in {"DONE", "ERROR"} =>
          designMetadata.loadFinishConsumers = <<>>

\* after a designChangeNotify a load cached a design and released a call that
\* was queued behind a loader
C35_Witness ==
    /\ notices > 0
    /\ designMetadata.state = "DONE" /\ designMetadata.partialDesign # 0
    /\ \E l \in LoadIds : /\ loads[l].behind # 0
                          /\ loads[l].status = "returned" /\ loads[l].sawState = "DONE"

(* ------------------- properties of the commands ------------------------- *)

\* the current step is the invocation of a command
commandStep == budget'.cmds < budget.cmds

\* C25: a command invoked while connected() is false ends with "WebSocket is
\* not connected", writes nothing to the socket and queues nothing in the
\* Disconnect Buffer.
C25_CommandsNeedConnection ==
    [][(commandStep /\ ~connected(socket, readyState)) =>
          /\ lastCommand'.outcome = "WebSocket is not connected"
          /\ wire' = wire
          /\ disconnectEventBuffer' = disconnectEventBuffer]_vars

\* the runtime-update requests sent so far, and those whose await has thrown
runtimeUpdates == {c \in CallIds : calls[c].attempt > 0}
failedUpdate(cs, c) == cs[c].attempt > 0 /\ cs[c].status \in {"rejected", "timedOut"}

\* the runtime-update requests the current step sends
updatesSent == {c \in CallIds : calls[c].status = "unused" /\ calls'[c].attempt > 0}

stateEvent == budget'.states < budget.states

\* two values lie on different sides of the threshold
crossing(a, b) == (a >= Threshold) # (b >= Threshold)

\* C29: with an onChange callback registered, a state event that reports a value
\* for the pin after an earlier reported value invokes the callback, with the
\* new boolean value, exactly when the two values lie on different sides of the
\* threshold; so whenever the callback has been called, the last value it got
\* agrees with getValue().
C29_OnChangeOnEveryCrossing ==
    /\ [][(/\ stateEvent /\ inputChangeListeners > 0
           /\ inputStates.value # -1 /\ reported' # -1) =>
             IF crossing(inputStates.value, reported')
             THEN onChange' = [calls |-> onChange.calls + inputChangeListeners,
                               last |-> passed(reported' >= Threshold)]
             ELSE onChange' = onChange]_vars
    /\ []((inputChangeListeners > 0 /\ onChange.last # "none") =>
             onChange.last = passed(getValue(inputStates)))

(* ------------------- properties of RetryUtil ---------------------------- *)

\* C30: runAsync with retryCount = N >= 1 invokes the process at most N + 1
\* times (the first attempt and up to N retries) and throws only when the first
\* attempt and all N retries have failed.
C30_RetriesNTimes ==
    \A r \in RunIds :
        runs[r].retryCount >= 1 =>
            /\ runs[r].invocations <= runs[r].retryCount + 1
            /\ runs[r].status = "threw" => runs[r].invocations = runs[r].retryCount + 1

\* C36: a setGain / setMute call one of whose requests was answered with state
\* OK completes without error, whatever happened to its earlier requests; it
\* throws only when none of its requests was answered OK.
C36_AcknowledgedUpdateSucceeds ==
    (\E c \in runtimeUpdates : calls[c].status = "resolved")
        => setGainResult(calls) = "returned"

\* C39: with the default retryCount (-1) runAsync never throws; it calls
\* process() again only after a failed call and the retry delay, one call at a
\* time; the step in which a call succeeds makes it return, and after that it
\* calls process() no more.
C39_DefaultRetriesUntilSuccess ==
    /\ [](\A r \in RunIds : runs[r].retryCount = -1 => runs[r].status # "threw")
    /\ [][\A r \in RunIds : runs[r].retryCount = -1 =>
             /\ runs[r].status = "returned" => runs'[r] = runs[r]
             /\ runs'[r].invocations # runs[r].invocations =>
                   /\ runs[r].status = "delaying" /\ runs'[r].status = "awaiting"
                   /\ runs'[r].invocations = runs[r].invocations + 1
             /\ (runs[r].status = "awaiting" /\ runs'[r].status # "awaiting") =>
                   /\ runs'[r].status \in {"returned", "delaying"}
                   /\ runs'[r].invocations = runs[r].invocations]_vars

\* a run with the default retryCount returned from its last allowed process()
\* call, after every earlier one had failed
C39_Witness ==
    \E r \in RunIds : /\ runs[r].retryCount = -1 /\ runs[r].status = "returned"
                      /\ runs[r].invocations = MaxInvocations

(* ------------------- properties of the paging router -------------------- *)

\* the current step handles a callResultEvent for actionId a
resultFor(a) ==
    /\ budget'.pages < budget.pages
    /\ lastPaging'.kind = "callResultEvent" /\ lastPaging'.actionId = a

\* C37: a call that got a final result (a failReason, or a state other than
\* BUSY) is no longer tracked as active, and a later callResultEvent for its
\* actionId, BUSY included, changes nothing and arms no retry.
C37_FinishedCallIgnored ==
    /\ [](finished \cap callTimeoutMap = {})
    /\ [][\A a \in finished : resultFor(a) =>
             /\ busyTimers' = busyTimers
             /\ callTimeoutMap' = callTimeoutMap
             /\ callStarts' = callStarts]_vars

\* the current step sends callStartEvent for actionId a
startsCall(a) == callStarts'[a] > callStarts[a]

\* the current step handles a callPrepareResultEvent
prepareResult == budget'.pages < budget.pages /\ lastPaging'.kind = "callPrepareResultEvent"

\* C38: a callStartEvent for an actionId is sent only in the step that handles a
\* callPrepareResultEvent without failReason for it while its prepare is pending,
\* or by the 1 s retry armed by a BUSY result for a call that was tracked as
\* active, i.e. had not yet got a final result; a prepare result that comes
\* after the 30 s timeout, has a failReason or names an unknown actionId sends
\* nothing.
C38_StartOnlyAfterPrepare ==
    /\ [][\A a \in ActionIds : startsCall(a) =>
             /\ callStarts'[a] = callStarts[a] + 1
             /\ \/ /\ prepareResult /\ lastPaging'.actionId = a
                   /\ ~lastPaging'.failReason
                   /\ a \in callPrepareWaitingMap /\ a \in 1..actionSeq
                \/ /\ busyTimers # <<>> /\ Head(busyTimers) = a
                   /\ busyTimers' = Tail(busyTimers)]_vars
    /\ [][\A a \in ActionIds :
             Len(SelectSeq(busyTimers', LAMBDA x : x = a))
                > Len(SelectSeq(busyTimers, LAMBDA x : x = a)) =>
                   /\ resultFor(a) /\ lastPaging'.state = "BUSY"
                   /\ a \in callTimeoutMap /\ a \notin finished]_vars
    /\ [][(/\ prepareResult
           /\ \/ lastPaging'.actionId \notin callPrepareWaitingMap
              \/ lastPaging'.failReason) =>
             /\ wire' = wire /\ disconnectEventBuffer' = disconnectEventBuffer
             /\ callStarts' = callStarts]_vars

(* ------------------- properties of the connection manager --------------- *)

\* C34: at most one heartbeat interval timer is active, and while no socket
\* handle is held no heartbeat timer is active and lastIncomeHeartbeat is null.
C34_HeartbeatFollowsSocket ==
    /\ heartbeatSendingInterval <= 1
    /\ socket = 0 => (heartbeatSendingInterval = 0 /\ lastIncomeHeartbeat = -1)

\* the client closed socket s for a missing heartbeat
forced(s) == "Missing heartbeat" \in signalled[s]

\* C11: a heartbeat tick on a Connected socket at which no heartbeat frame came
\* in for longer than the threshold force-closes that socket, and a socket closed
\* for a missing heartbeat is followed by a new socket (while the runtime lets
\* one be created).
C11_MissingHeartbeatReconnects ==
    /\ [][(budget'.ticks < budget.ticks /\ connected(socket, readyState)
             /\ lastIncomeHeartbeat' > HeartbeatTimeoutTicks)
          => (readyState'[socket] = "CLOSING" /\ forced(socket)')]_vars
    /\ \A s \in 1..MaxSockets :
          (forced(s) /\ budget.sockets > 0) ~> (readyState[s + 1] # "NONE")

\* the current step is a tick of the heartbeat interval
tickStep == budget'.ticks < budget.ticks

\* C26: the client closes a socket for a missing heartbeat only in a tick step
\* after which the time since the last stamp exceeds the threshold; the stamp
\* is renewed (elapsed time 0) by every heartbeat frame and by every open, so
\* the elapsed time of a connection starts at its open and restarts at each of
\* its heartbeat frames; the elapsed time grows only by ticks, one at a time.
C26_ForcedCloseOnlyAfterSilence ==
    /\ [][\A s \in SocketIds : (forced(s)' /\ ~forced(s)) =>
             /\ tickStep /\ s = socket /\ socket' = socket
             /\ lastIncomeHeartbeat # -1
             /\ lastIncomeHeartbeat' > HeartbeatTimeoutTicks]_vars
    /\ [][\A s \in SocketIds :
             (readyState[s] \in {"OPEN", "CONNECTING"} /\ readyState'[s] = "CLOSING"
              /\ tickStep) => (s = socket /\ forced(s)')]_vars
    /\ [][(lastIn' # lastIn /\ lastIn'.type = "heartbeat")
             => lastIncomeHeartbeat' = 0]_vars
    /\ [][\A s \in SocketIds :
             (readyState[s] = "CONNECTING" /\ readyState'[s] = "OPEN")
                => (s = socket /\ lastIncomeHeartbeat' = 0)]_vars
    /\ [][lastIncomeHeartbeat' # lastIncomeHeartbeat =>
             \/ lastIncomeHeartbeat' \in {0, -1}
             \/ tickStep /\ lastIncomeHeartbeat' = lastIncomeHeartbeat + 1]_vars

\* a connection received a heartbeat frame and was closed at the second of two
\* ticks that followed without another one
C26_Witness ==
    /\ socket # 0 /\ readyState[socket] = "CLOSING" /\ forced(socket)
    /\ lastIn.kind = "heartbeat"
    /\ lastIncomeHeartbeat = HeartbeatTimeoutTicks + 1

\* the current step is the callback of a reconnect timer (disconnect(); connect()),
\* in which the WebSocket constructor returns / throws
timerStep == budget'.sockets < budget.sockets \/ budget'.throws < budget.throws

\* connect() as a call made in the current state
connectNow(throws) ==
    connect([socket |-> socket, rs |-> readyState, r |-> reconnector], throws)

\* C27 as stated: connect() called while a socket handle is held or while a
\* reconnect timer is armed creates no socket and leaves the timers as they are.
C27_ConnectNoOp ==
    /\ [][(timerStep /\ Len(timers) >= 2) =>
             /\ socket' = 0
             /\ timers' = Tail(timers)
             /\ \A s \in SocketIds : readyState[s] = "NONE" => readyState'[s] = "NONE"]_vars
    /\ [](socket # 0 => \A throws \in BOOLEAN :
             connectNow(throws) = [socket |-> socket, rs |-> readyState, r |-> reconnector])

\* C27, amended: connect() first cancels the timer this.reconnectTimeout names
\* (the last one armed). With a socket handle held it does nothing else. With
\* none held, as in every timer callback, it creates a socket, also while other
\* reconnect timers are armed; those stay armed.
C27_ConnectCancelsLastTimer ==
    /\ [][timerStep =>
             /\ budget'.sockets < budget.sockets =>
                   /\ socket' = NewSocketId /\ readyState'[socket'] = "CONNECTING"
                   /\ timers' = clearTimeout(Tail(timers), reconnectTimeout)
             /\ budget'.throws < budget.throws =>
                   /\ socket' = 0
                   /\ Len(timers') = Len(clearTimeout(Tail(timers), reconnectTimeout)) + 1
                   /\ reconnectTimeout' = timers'[Len(timers')].id]_vars
    /\ [](socket # 0 => \A throws \in BOOLEAN :
             connectNow(throws) =
                [socket |-> socket, rs |-> readyState,
                 r |-> [reconnector EXCEPT !.timers = clearTimeout(@, reconnectTimeout)]])

\* two timers were armed for the first socket; the callback of the first one
\* cancelled the second and created the second socket
C27_Witness ==
    /\ timerSeq = 2 /\ timers = <<>>
    /\ socket = 2 /\ readyState[2] = "CONNECTING"
    /\ budget.throws = MaxThrows

\* connect() calls the runtime still allows
attemptsLeft == budget.sockets + budget.throws

\* C12: whenever no socket is held or the held socket has failed (constructor
\* threw, error signal, close signal), a reconnect timer is armed; and under fair
\* timers an armed timer is followed by a further connect attempt.
C12_ReconnectEventually ==
    /\ []((socket = 0 \/ readyState[socket] = "CLOSED") => timers # <<>>)
    /\ \A k \in 1..(MaxSockets + MaxThrows) :
          (timers # <<>> /\ budget.sockets > 0 /\ attemptsLeft = k) ~> (attemptsLeft < k)

\* the constructor threw, no socket was held with a timer armed, and a later
\* attempt created a socket
C12_Witness ==
    /\ budget.throws < LiveThrows
    /\ socket > 1
    /\ readyState[socket] = "CONNECTING"
    /\ signalled[1] # {}

\* a socket closed for a missing heartbeat signalled close (and no error), and
\* the reconnect timer created its successor
C11_Witness ==
    \E s \in 1..MaxSockets :
        /\ signalled[s] = {"Missing heartbeat", "close"}
        /\ socket = s + 1
        /\ readyState[s + 1] = "CONNECTING"

\* C9: the failure of a connection instance, signalled by error, close or both,
\* leads to one socket creation: the timers a socket armed create at most one
\* new socket.
C9_OneReconnectPerFailure ==
    \A s \in SocketIds : reconnectsFor[s] <= 1

\* C10: a signal of a socket that is no longer the current handle arms no
\* reconnect timer.
C10_StaleSignalIgnored ==
    \A i \in DOMAIN timers : ~timers[i].stale

====
